---- MODULE Spec2Model ----
(***************************************************************************)
(* Model of backend/scraper/query_concept_mapper.py: QueryConceptMapper,   *)
(* and of backend/scraper/concept_extraction_util.py, which writes the     *)
(* curriculum document the mapper loads.                                   *)
(* A mapper is constructed from a curriculum document (Init), after which  *)
(* analyze_query and identify_knowledge_gaps are called with query strings.*)
(* Python strings are TLA+ strings; lists are sequences; dicts with        *)
(* optional keys are records read through Get (dict.get).                  *)
(***************************************************************************)
EXTENDS Integers, Sequences, FiniteSets, TLC

VARIABLES curriculum, concept_index, last_call, analysis, gaps, workers,
          input_dir, concept_structures, pending, curriculum_file, construction,
          extraction

vars == <<curriculum, concept_index, last_call, analysis, gaps, workers,
          input_dir, concept_structures, pending, curriculum_file, construction,
          extraction>>

(***************************************************************************)
(* Bounds of the model.                                                    *)
(***************************************************************************)
MaxTopics == 2
MaxParts == 2
MaxWorkers == 2
MaxFiles == 2

(***************************************************************************)
(* Python built-ins used by the mapper.                                    *)
(***************************************************************************)
\* dict.get(key, default)
Get(d, k, default) == IF k \in DOMAIN d THEN d[k] ELSE default

\* s[i] for a 1-based position
CharAt(s, i) == SubSeq(s, i, i)

\* Case tables of the Unicode database the interpreter carries, for the
\* characters a string here can hold. The characters of s, as a set:
Chars(s) == {CharAt(s, i) : i \in 1..Len(s)}

\* the characters str.lower() changes, and below each what it changes it to
UpperChars ==
    "ABCDEFGHIJKLMNOPQRSTUVWXYZÀÁÂÃÄÅÆÇÈÉÊËÌÍÎÏÐÑÒÓÔÕ"
    \o "ÖØÙÚÛÜÝÞƂƄƇƋƎƑƘƠƢƤƦƧƩƬƮƯƱƲƳƵƷƸƼǄǅǇǈǊǋǍǏǑǓǕǗǙǛǞǠǢ"
    \o "ǤǦǨǪǬǮǱǲǴǶǷǸǺǼǾΆΈΉΊΌΎΏΑΒΓΔΕΖΗΘΙΚΛΜΝΞΟΠΡΣΤΥΦΧΨΩΪΫ"
    \o "ϏϘϚϜϞϠϢϤϦϨϪϬϮϴϷϹϺҀҊҌҎҐҒҔҖҘҚҜҞҠҢҤҦҨҪҬҮҰҲҴҶҸҺҼҾӀӁӃ"
    \o "ӅӇӉӋӍӐӒӔӖӘӚӜӞӠӢӤӦӨӪӬӮӰӲӴӶӸӺӼӾᎰᎱᎲᎳᎴᎵᎶᎷᎸᎹᎺᎻᎼᎽᎾᎿᏀᏁᏂ"
    \o "ᏃᏄᏅᏆᏇᏈᏉᏊᏋᏌᏍᏎᏏᏐᏑᏒᏓᏔᏕᏖᏗᏘᏙᏚᏛᏜᏝᏞᏟᏠᏡᏢᏣᏤᏥᏦᏧᏨᏩᏪᏫᏬᏭᏮᏯᏰᏱᏲ"
    \o "ᏳᏴᏵᲐᲑᲒᲓᲔᲕᲖᲗᲘᲙᲚᲛᲜᲝᲞᲟᲠᲡᲢᲣᲤᲥᲦᲧᲨᲩᲪᲫᲬᲭᲮᲯᲰᲱᲲᲳᲴᲵᲶᲷᲸᲹᲺᲽᲾ"
    \o "ᲿẀẂẄẆẈẊẌẎẐẒẔẞẠẢẤẦẨẪẬẮẰẲẴẶẸẺẼẾỀỂỄỆỈỊỌỎỐỒỔỖỘỚỜỞỠỢỤ"
    \o "ỦỨỪỬỮỰỲỴỶỸỺỼỾᾈᾉᾊᾋᾌᾍᾎᾏᾘᾙᾚᾛᾜᾝᾞᾟᾨᾩᾪᾫᾬᾭᾮᾯᾸᾹᾼῌῘῙῨῩῬῼↃ"
    \o "ⒶⒷⒸⒹⒺⒻⒼⒽⒾⒿⓀⓁⓂⓃⓄⓅⓆⓇⓈⓉⓊⓋⓌⓍⓎⓏⲀⲂⲄⲆⲈⲊⲌⲎⲐⲒⲔⲖⲘⲚⲜⲞⲠⲢⲤⲦⲨⲪ"
    \o "ⲬⲮⲰⲲⲴⲶⲸⲺⲼⲾⳀⳂⳄⳆⳈⳊⳌⳎⳐⳒⳔⳖⳘⳚⳜⳞⳠⳢⳫⳭⳲꚀꚂꚄꚆꚈꚊꚌꚎꚐꚒꚔꚖꚘꚚꞀꞂꞄ"
    \o "ꞆꞋꞐꞒꞖꞘꞚꞜꞞꞠꞢꞤꞦꞨꞰꞱꞲꞴꞶꞸꞺꞼꞾꟀꟂꟄꟅꟆꟇꟉꟐꟖꟘꟵ"

LowerChars ==
    "abcdefghijklmnopqrstuvwxyzàáâãäåæçèéêëìíîïðñòóôõ"
    \o "öøùúûüýþƃƅƈƌǝƒƙơƣƥʀƨʃƭʈưʊʋƴƶʒƹƽǆǆǉǉǌǌǎǐǒǔǖǘǚǜǟǡǣ"
    \o "ǥǧǩǫǭǯǳǳǵƕƿǹǻǽǿάέήίόύώαβγδεζηθικλμνξοπρστυφχψωϊϋ"
    \o "ϗϙϛϝϟϡϣϥϧϩϫϭϯθϸϲϻҁҋҍҏґғҕҗҙқҝҟҡңҥҧҩҫҭүұҳҵҷҹһҽҿӏӂӄ"
    \o "ӆӈӊӌӎӑӓӕӗәӛӝӟӡӣӥӧөӫӭӯӱӳӵӷӹӻӽӿꮀꮁꮂꮃꮄꮅꮆꮇꮈꮉꮊꮋꮌꮍꮎꮏꮐꮑꮒ"
    \o "ꮓꮔꮕꮖꮗꮘꮙꮚꮛꮜꮝꮞꮟꮠꮡꮢꮣꮤꮥꮦꮧꮨꮩꮪꮫꮬꮭꮮꮯꮰꮱꮲꮳꮴꮵꮶꮷꮸꮹꮺꮻꮼꮽꮾꮿᏸᏹᏺ"
    \o "ᏻᏼᏽაბგდევზთიკლმნოპჟრსტუფქღყშჩცძწჭხჯჰჱჲჳჴჵჶჷჸჹჺჽჾ"
    \o "ჿẁẃẅẇẉẋẍẏẑẓẕßạảấầẩẫậắằẳẵặẹẻẽếềểễệỉịọỏốồổỗộớờởỡợụ"
    \o "ủứừửữựỳỵỷỹỻỽỿᾀᾁᾂᾃᾄᾅᾆᾇᾐᾑᾒᾓᾔᾕᾖᾗᾠᾡᾢᾣᾤᾥᾦᾧᾰᾱᾳῃῐῑῠῡῥῳↄ"
    \o "ⓐⓑⓒⓓⓔⓕⓖⓗⓘⓙⓚⓛⓜⓝⓞⓟⓠⓡⓢⓣⓤⓥⓦⓧⓨⓩⲁⲃⲅⲇⲉⲋⲍⲏⲑⲓⲕⲗⲙⲛⲝⲟⲡⲣⲥⲧⲩⲫ"
    \o "ⲭⲯⲱⲳⲵⲷⲹⲻⲽⲿⳁⳃⳅⳇⳉⳋⳍⳏⳑⳓⳕⳗⳙⳛⳝⳟⳡⳣⳬⳮⳳꚁꚃꚅꚇꚉꚋꚍꚏꚑꚓꚕꚗꚙꚛꞁꞃꞅ"
    \o "ꞇꞌꞑꞓꞗꞙꞛꞝꞟꞡꞣꞥꞧꞩʞʇʝꞵꞷꞹꞻꞽꞿꟁꟃꞔʂᶎꟈꟊꟑꟗꟙꟶ"

\* the characters whose lower-case form no string here can hold
NoLowerChars ==
    Chars("ƁƆƉƊƏƐƓƔƖƗƜƝƟϽϾϿႠႡႢႣႤႥႦႧႨႩႪႫႬႭႮႯႰႱႲႳႴႵႶႷႸႹႺႻႼႽႾႿ"
          \o "ჀჁჂჃჄჅჇჍᎠᎡᎢᎣᎤᎥᎦᎧᎨᎩᎪᎫᎬᎭᎮᎯᾺΆῈΈῊΉῚΊῪΎῸΌῺΏꞍꞪꞫꞬꞭꞮꞳ")

UpperSet == Chars(UpperChars)

\* the characters str.title() changes at the start of a word, and below each
\* what it changes it to
TitleSources ==
    "abcdefghijklmnopqrstuvwxyzµàáâãäåæçèéêëìíîïðñòóô"
    \o "õöøùúûüýþƃƅƈƌƒƕƙơƣƥƨƭưƴƶƹƽƿǄǆǇǉǊǌǎǐǒǔǖǘǚǜǝǟǡǣǥǧǩ"
    \o "ǫǭǯǱǳǵǹǻǽǿʀʂʃʇʈʊʋʒʝʞάέήίαβγδεζηθικλμνξοπρςστυφχψ"
    \o "ωϊϋόύώϐϑϕϖϗϙϛϝϟϡϣϥϧϩϫϭϯϰϱϲϵϸϻҁҋҍҏґғҕҗҙқҝҟҡңҥҧҩҫҭ"
    \o "үұҳҵҷҹһҽҿӂӄӆӈӊӌӎӏӑӓӕӗәӛӝӟӡӣӥӧөӫӭӯӱӳӵӷӹӻӽӿᏸᏹᏺᏻᏼᏽᶎ"
    \o "ẁẃẅẇẉẋẍẏẑẓẕạảấầẩẫậắằẳẵặẹẻẽếềểễệỉịọỏốồổỗộớờởỡợụủứ"
    \o "ừửữựỳỵỷỹỻỽỿᾀᾁᾂᾃᾄᾅᾆᾇᾐᾑᾒᾓᾔᾕᾖᾗᾠᾡᾢᾣᾤᾥᾦᾧᾰᾱᾳιῃῐῑῠῡῥῳↄⓐ"
    \o "ⓑⓒⓓⓔⓕⓖⓗⓘⓙⓚⓛⓜⓝⓞⓟⓠⓡⓢⓣⓤⓥⓦⓧⓨⓩⲁⲃⲅⲇⲉⲋⲍⲏⲑⲓⲕⲗⲙⲛⲝⲟⲡⲣⲥⲧⲩⲫⲭ"
    \o "ⲯⲱⲳⲵⲷⲹⲻⲽⲿⳁⳃⳅⳇⳉⳋⳍⳏⳑⳓⳕⳗⳙⳛⳝⳟⳡⳣⳬⳮⳳꚁꚃꚅꚇꚉꚋꚍꚏꚑꚓꚕꚗꚙꚛꞁꞃꞅꞇ"
    \o "ꞌꞑꞓꞔꞗꞙꞛꞝꞟꞡꞣꞥꞧꞩꞵꞷꞹꞻꞽꞿꟁꟃꟈꟊꟑꟗꟙꟶꮀꮁꮂꮃꮄꮅꮆꮇꮈꮉꮊꮋꮌꮍꮎꮏꮐꮑꮒꮓ"
    \o "ꮔꮕꮖꮗꮘꮙꮚꮛꮜꮝꮞꮟꮠꮡꮢꮣꮤꮥꮦꮧꮨꮩꮪꮫꮬꮭꮮꮯꮰꮱꮲꮳꮴꮵꮶꮷꮸꮹꮺꮻꮼꮽꮾꮿ"

TitleTargets ==
    "ABCDEFGHIJKLMNOPQRSTUVWXYZΜÀÁÂÃÄÅÆÇÈÉÊËÌÍÎÏÐÑÒÓÔ"
    \o "ÕÖØÙÚÛÜÝÞƂƄƇƋƑǶƘƠƢƤƧƬƯƳƵƸƼǷǅǅǈǈǋǋǍǏǑǓǕǗǙǛƎǞǠǢǤǦǨ"
    \o "ǪǬǮǲǲǴǸǺǼǾƦꟅƩꞱƮƱƲƷꞲꞰΆΈΉΊΑΒΓΔΕΖΗΘΙΚΛΜΝΞΟΠΡΣΣΤΥΦΧΨ"
    \o "ΩΪΫΌΎΏΒΘΦΠϏϘϚϜϞϠϢϤϦϨϪϬϮΚΡϹΕϷϺҀҊҌҎҐҒҔҖҘҚҜҞҠҢҤҦҨҪҬ"
    \o "ҮҰҲҴҶҸҺҼҾӁӃӅӇӉӋӍӀӐӒӔӖӘӚӜӞӠӢӤӦӨӪӬӮӰӲӴӶӸӺӼӾᏰᏱᏲᏳᏴᏵꟆ"
    \o "ẀẂẄẆẈẊẌẎẐẒẔẠẢẤẦẨẪẬẮẰẲẴẶẸẺẼẾỀỂỄỆỈỊỌỎỐỒỔỖỘỚỜỞỠỢỤỦỨ"
    \o "ỪỬỮỰỲỴỶỸỺỼỾᾈᾉᾊᾋᾌᾍᾎᾏᾘᾙᾚᾛᾜᾝᾞᾟᾨᾩᾪᾫᾬᾭᾮᾯᾸᾹᾼΙῌῘῙῨῩῬῼↃⒶ"
    \o "ⒷⒸⒹⒺⒻⒼⒽⒾⒿⓀⓁⓂⓃⓄⓅⓆⓇⓈⓉⓊⓋⓌⓍⓎⓏⲀⲂⲄⲆⲈⲊⲌⲎⲐⲒⲔⲖⲘⲚⲜⲞⲠⲢⲤⲦⲨⲪⲬ"
    \o "ⲮⲰⲲⲴⲶⲸⲺⲼⲾⳀⳂⳄⳆⳈⳊⳌⳎⳐⳒⳔⳖⳘⳚⳜⳞⳠⳢⳫⳭⳲꚀꚂꚄꚆꚈꚊꚌꚎꚐꚒꚔꚖꚘꚚꞀꞂꞄꞆ"
    \o "ꞋꞐꞒꟄꞖꞘꞚꞜꞞꞠꞢꞤꞦꞨꞴꞶꞸꞺꞼꞾꟀꟂꟇꟉꟐꟖꟘꟵᎰᎱᎲᎳᎴᎵᎶᎷᎸᎹᎺᎻᎼᎽᎾᎿᏀᏁᏂᏃ"
    \o "ᏄᏅᏆᏇᏈᏉᏊᏋᏌᏍᏎᏏᏐᏑᏒᏓᏔᏕᏖᏗᏘᏙᏚᏛᏜᏝᏞᏟᏠᏡᏢᏣᏤᏥᏦᏧᏨᏩᏪᏫᏬᏭᏮᏯ"

\* those it changes to more than one character
TitleSpecial ==
    << <<"ß", "Ss">>,
       <<"ẚ", "Aʾ">> >>

\* the characters whose title-case form no string here can hold
NoTitleChars ==
    Chars("ÿƀƚƞǰʉʌΐΰϳրցւփքօֆևᲀᲁᲂᲃᲄᲅᲆᲇᲈẖẗẘẙẛᾲᾴᾶᾷῂῄῆῇῒΐῖῗῢΰῤῦ"
          \o "ῧῲῴῶῷ")

\* the cased characters: upper-case, lower-case and title-case letters and the
\* characters with the property Other_Lowercase or Other_Uppercase
CasedChars ==
    Chars("ABCDEFGHIJKLMNOPQRSTUVWXYZabcdefghijklmnopqrstuv"
          \o "wxyzªµºÀÁÂÃÄÅÆÇÈÉÊËÌÍÎÏÐÑÒÓÔÕÖØÙÚÛÜÝÞßàáâãäåæçèé"
          \o "êëìíîïðñòóôõöøùúûüýþÿƀƁƂƃƄƅƆƇƈƉƊƋƌƍƎƏƐƑƒƓƔƕƖƗƘƙƚ"
          \o "ƛƜƝƞƟƠơƢƣƤƥƦƧƨƩƪƫƬƭƮƯưƱƲƳƴƵƶƷƸƹƺƼƽƾƿǄǅǆǇǈǉǊǋǌǍǎǏ"
          \o "ǐǑǒǓǔǕǖǗǘǙǚǛǜǝǞǟǠǡǢǣǤǥǦǧǨǩǪǫǬǭǮǯǰǱǲǳǴǵǶǷǸǹǺǻǼǽǾǿ"
          \o "ʀʁʂʃʄʅʆʇʈʉʊʋʌʍʎʏʐʑʒʓʕʖʗʘʙʚʛʜʝʞʟʠʡʢʣʤʥʦʧʨʩʪʫʬʭʮʯʰ"
          \o "ʱʲʳʴʵʶʷʸˀˁˠˡˢˣˤΆΈΉΊΌΎΏΐΑΒΓΔΕΖΗΘΙΚΛΜΝΞΟΠΡΣΤΥΦΧΨΩΪ"
          \o "ΫάέήίΰαβγδεζηθικλμνξοπρςστυφχψωϊϋόύώϏϐϑϒϓϔϕϖϗϘϙϚ"
          \o "ϛϜϝϞϟϠϡϢϣϤϥϦϧϨϩϪϫϬϭϮϯϰϱϲϳϴϵϷϸϹϺϻϼϽϾϿҀҁҊҋҌҍҎҏҐґҒғ"
          \o "ҔҕҖҗҘҙҚқҜҝҞҟҠҡҢңҤҥҦҧҨҩҪҫҬҭҮүҰұҲҳҴҵҶҷҸҹҺһҼҽҾҿӀӁӂӃ"
          \o "ӄӅӆӇӈӉӊӋӌӍӎӏӐӑӒӓӔӕӖӗӘәӚӛӜӝӞӟӠӡӢӣӤӥӦӧӨөӪӫӬӭӮӯӰӱӲӳ"
          \o "ӴӵӶӷӸӹӺӻӼӽӾӿրցւփքօֆևֈႠႡႢႣႤႥႦႧႨႩႪႫႬႭႮႯႰႱႲႳႴႵႶႷႸႹႺ"
          \o "ႻႼႽႾႿჀჁჂჃჄჅჇჍაბგდევზთიკლმნოპჟრსტუფქღყშჩცძწჭხჯჰჱჲ"
          \o "ჳჴჵჶჷჸჹჺჽჾჿᎠᎡᎢᎣᎤᎥᎦᎧᎨᎩᎪᎫᎬᎭᎮᎯᎰᎱᎲᎳᎴᎵᎶᎷᎸᎹᎺᎻᎼᎽᎾᎿᏀᏁᏂᏃᏄ"
          \o "ᏅᏆᏇᏈᏉᏊᏋᏌᏍᏎᏏᏐᏑᏒᏓᏔᏕᏖᏗᏘᏙᏚᏛᏜᏝᏞᏟᏠᏡᏢᏣᏤᏥᏦᏧᏨᏩᏪᏫᏬᏭᏮᏯᏰᏱᏲᏳᏴ"
          \o "ᏵᏸᏹᏺᏻᏼᏽᲀᲁᲂᲃᲄᲅᲆᲇᲈᲐᲑᲒᲓᲔᲕᲖᲗᲘᲙᲚᲛᲜᲝᲞᲟᲠᲡᲢᲣᲤᲥᲦᲧᲨᲩᲪᲫᲬᲭᲮᲯ"
          \o "ᲰᲱᲲᲳᲴᲵᲶᲷᲸᲹᲺᲽᲾᲿᶀᶁᶂᶃᶄᶅᶆᶇᶈᶉᶊᶋᶌᶍᶎᶏᶐᶑᶒᶓᶔᶕᶖᶗᶘᶙᶚᶛᶜᶝᶞᶟᶠᶡ"
          \o "ᶢᶣᶤᶥᶦᶧᶨᶩᶪᶫᶬᶭᶮᶯᶰᶱᶲᶳᶴᶵᶶᶷᶸᶹᶺᶻᶼᶽᶾᶿẀẁẂẃẄẅẆẇẈẉẊẋẌẍẎẏẐẑ"
          \o "ẒẓẔẕẖẗẘẙẚẛẜẝẞẟẠạẢảẤấẦầẨẩẪẫẬậẮắẰằẲẳẴẵẶặẸẹẺẻẼẽẾếỀề"
          \o "ỂểỄễỆệỈỉỊịỌọỎỏỐốỒồỔổỖỗỘộỚớỜờỞởỠỡỢợỤụỦủỨứỪừỬửỮữỰự"
          \o "ỲỳỴỵỶỷỸỹỺỻỼỽỾỿᾀᾁᾂᾃᾄᾅᾆᾇᾈᾉᾊᾋᾌᾍᾎᾏᾐᾑᾒᾓᾔᾕᾖᾗᾘᾙᾚᾛᾜᾝᾞᾟᾠᾡ"
          \o "ᾢᾣᾤᾥᾦᾧᾨᾩᾪᾫᾬᾭᾮᾯᾰᾱᾲᾳᾴᾶᾷᾸᾹᾺΆᾼιῂῃῄῆῇῈΈῊΉῌῐῑῒΐῖῗῘῙῚΊῠ"
          \o "ῡῢΰῤῥῦῧῨῩῪΎῬῲῳῴῶῷῸΌῺΏῼₐₑₒₓₔₕₖₗₘₙₚₛₜↃↄⒶⒷⒸⒹⒺⒻⒼⒽⒾⒿⓀ"
          \o "ⓁⓂⓃⓄⓅⓆⓇⓈⓉⓊⓋⓌⓍⓎⓏⓐⓑⓒⓓⓔⓕⓖⓗⓘⓙⓚⓛⓜⓝⓞⓟⓠⓡⓢⓣⓤⓥⓦⓧⓨⓩⲀⲁⲂⲃⲄⲅⲆ"
          \o "ⲇⲈⲉⲊⲋⲌⲍⲎⲏⲐⲑⲒⲓⲔⲕⲖⲗⲘⲙⲚⲛⲜⲝⲞⲟⲠⲡⲢⲣⲤⲥⲦⲧⲨⲩⲪⲫⲬⲭⲮⲯⲰⲱⲲⲳⲴⲵⲶ"
          \o "ⲷⲸⲹⲺⲻⲼⲽⲾⲿⳀⳁⳂⳃⳄⳅⳆⳇⳈⳉⳊⳋⳌⳍⳎⳏⳐⳑⳒⳓⳔⳕⳖⳗⳘⳙⳚⳛⳜⳝⳞⳟⳠⳡⳢⳣⳤⳫⳬ"
          \o "ⳭⳮⳲⳳꚀꚁꚂꚃꚄꚅꚆꚇꚈꚉꚊꚋꚌꚍꚎꚏꚐꚑꚒꚓꚔꚕꚖꚗꚘꚙꚚꚛꚜꚝꞀꞁꞂꞃꞄꞅꞆꞇꞋꞌꞍꞎꞐꞑ"
          \o "ꞒꞓꞔꞕꞖꞗꞘꞙꞚꞛꞜꞝꞞꞟꞠꞡꞢꞣꞤꞥꞦꞧꞨꞩꞪꞫꞬꞭꞮꞯꞰꞱꞲꞳꞴꞵꞶꞷꞸꞹꞺꞻꞼꞽꞾꞿꟀꟁ"
          \o "ꟂꟃꟄꟅꟆꟇꟈꟉꟊꟐꟑꟓꟕꟖꟗꟘꟙꟵꟶꟸꟹꟺꮀꮁꮂꮃꮄꮅꮆꮇꮈꮉꮊꮋꮌꮍꮎꮏꮐꮑꮒꮓꮔꮕꮖꮗꮘꮙ"
          \o "ꮚꮛꮜꮝꮞꮟꮠꮡꮢꮣꮤꮥꮦꮧꮨꮩꮪꮫꮬꮭꮮꮯꮰꮱꮲꮳꮴꮵꮶꮷꮸꮹꮺꮻꮼꮽꮾꮿ")

\* the characters a word may hold between its letters (Case_Ignorable)
CaseIgnorableChars ==
    Chars("'.:^¨­¯´·¸ʰʱʲʳʴʵʶʷʸʹʺʻʼʽʾʿˀˁ˂˃˄˅ˆˇˈˉˊˋˌˍˎˏːˑ˒˓˔˕"
          \o "˖˗˘˙˚˛˜˝˞˟ˠˡˢˣˤ˥˦˧˨˩˪˫ˬ˭ˮ˯˰˱˲˳˴˵˶˷˸˹˺˻˼˽˾˿΄΅·҃҄҅"
          \o "҆҇҈҉ְֱֲֳִֵֶַָֹֺֻּ֑֖֛֢֣֤֥֦֧֪֚֭֮֒֓֔֕֗֘֙֜֝֞֟֠֡֨֩֫֬֯"
          \o "ׇֽֿׁׂׅׄ״ۖۗۘۙۚۛۜ۝ۣ۟۠ۡۢۤۥۦ۪ۭۧۨ۫۬ަާިީުޫެޭޮޯް߫߬߭߮߯߰߱"
          \o "߲߳ߴߵߺ߽࢈࢐࢑࢙࢚࢛࢘࢜࢝࢞࢟ࣉ࣏࣐࣑࣒࣓࣊࣋࣌࣍࣎ࣔࣕࣖࣗࣘࣙࣚࣛࣜࣝࣞࣟ࣠࣡࣢ࣣࣦࣤࣥࣧ"
          \o "ࣰࣱࣲࣩ࣭࣮࣯ࣶࣹࣺࣨ࣪࣫࣬ࣳࣴࣵࣷࣸࣻࣼࣽࣾࣿঁ়ুূৃৄ্ৢৣ৾ઁં઼ુૂૃૄૅેૈ્ૢૣૺ"
          \o "ૻૼ૽૾૿ஂீ்ಁ಼ಿೆೌ್ೢೣඁ්ිීුූັິີຶື຺ຸູົຼໆ່້໊໋໌ໍ྄ཱྀྀྂྃ྆྇ྍྎ"
          \o "ྏྐྑྒྒྷྔྕྖྗྙྚྛྜྜྷྞྟྠྡྡྷྣྤྥྦྦྷྨྩྪྫྫྷྭྮྯྰྱྲླྴྵྶྷྸྐྵྺྻྼ࿆ႂႅ"
          \o "ႆႍႝჼ឴឵ិីឹឺុូួំ៉៊់៌៍៎៏័៑្៓ៗ៝ᢅᢆᢩᪧ᪵᪶᪷᪸᪹᪺᪽᪰᪱᪲᪳᪴᪻᪼᪾ᪿᫀ"
          \o "᫃᫄᫊᫁᫂᫅᫆᫇᫈᫉᫋ᫌᫍᫎᮀᮁᮢᮣᮤᮥᮨᮩ᮫ᮬᮭ᯦ᯨᯩᯭᯯᯰᯱ᳔᳕᳖᳗᳘᳙᳜᳝᳞᳟᳐᳑᳒᳚᳛᳠"
          \o "᳢᳣᳤᳥᳦᳧᳨᳭᳴᳸᳹ᶛᶜᶝᶞᶟᶠᶡᶢᶣᶤᶥᶦᶧᶨᶩᶪᶫᶬᶭᶮᶯᶰᶱᶲᶳᶴᶵᶶᶷᶸᶹᶺᶻᶼᶽᶾᶿ"
          \o "᷐᷎᷂᷊᷏᷀᷁᷃᷄᷅᷆᷇᷈᷉᷋᷌᷑᷒ᷓᷔᷕᷖᷗᷘᷙᷚᷛᷜᷝᷞᷟᷠᷡᷢᷣᷤᷥᷦᷧᷨᷩᷪᷫᷬᷭᷮᷯ᷍"
          \o "᷺᷹᷽᷿᷷᷸ᷰᷱᷲᷳᷴ᷵᷻᷾᷶᷼᾽᾿῀῁῍῎῏῝῞῟῭΅`´῾ₐₑₒₓₔₕₖₗₘₙₚₛₜ⃒⃓⃐⃑"
          \o "⃘⃙⃚⃔⃕⃖⃗⃛⃜⃝⃞⃟⃠⃡⃢⃣⃤⃥⃦⃪⃫⃨⃬⃭⃮⃯⃧⃩⃰⳯⳰⳱ⷠⷡⷢⷣⷤⷥⷦⷧⷨⷩⷪⷫⷬⷭⷮⷯ"
          \o "゙゚ⷰⷱⷲⷳⷴⷵⷶⷷⷸⷹⷺⷻⷼⷽⷾⷿ゛゜ゝゞーヽヾꓸꓹꓺꓻꓼꓽꚜꚝꚞꚟ꛰꛱ꞈ꞉꞊ꟲꟳꟴꟸꟹ꣄ꣅ꣠"
          \o "꣡꣢꣣꣤꣥꣦꣧꣨꣩꣪꣫꣬꣭꣮꣯꣰꣱ꣿꦀꦁꦂ꦳ꦶꦷꦸꦹꦼꦽꧏꧥꧦꪴꪰꪲꪳꪷꪸꪾ꪿꫁ꫝꫬꫭꫳꫴ꫶ꯥꯨ"
          \o "꯭﮲﮳﮴﮵﮶﮷﮸﮹﮺﮻﮼﮽﮾﮿﯀﯁﯂﻿ﾞﾟ￣￹￺￻")

\* the form of a character that no string here can hold: a value left
\* unspecified, so that nothing is asserted about it
Unwritten == CHOOSE c \in {} : TRUE

\* str.lower() on one character, whatever stands around it
LowerChar(c) ==
    IF c \in NoLowerChars THEN Unwritten
    ELSE IF c \notin UpperSet THEN c
    ELSE CharAt(LowerChars, CHOOSE i \in 1..Len(UpperChars) : CharAt(UpperChars, i) = c)

IsCased(c) == c \in CasedChars

\* the capital sigma at position i ends a word: a cased character stands before
\* it and none after it, the characters a word may hold between its letters
\* not counted
FinalSigma(s, i) ==
    LET before == {j \in 1..(i - 1) : CharAt(s, j) \notin CaseIgnorableChars}
        after == {j \in (i + 1)..Len(s) : CharAt(s, j) \notin CaseIgnorableChars}
    IN  /\ before # {}
        /\ IsCased(CharAt(s, CHOOSE j \in before : \A k \in before : k <= j))
        /\ \/ after = {}
           \/ ~IsCased(CharAt(s, CHOOSE j \in after : \A k \in after : j <= k))

\* str.lower() on the character at position i of s
LowerAt(s, i) ==
    IF CharAt(s, i) = "Σ"
    THEN (IF FinalSigma(s, i) THEN "ς" ELSE "σ")
    ELSE LowerChar(CharAt(s, i))

\* str.lower()
Lower(s) ==
    LET RECURSIVE LowerFrom(_)
        LowerFrom(i) == IF i > Len(s) THEN "" ELSE LowerAt(s, i) \o LowerFrom(i + 1)
    IN  LowerFrom(1)

\* characters matched by \s and removed by str.strip() / str.split(): those
\* of str.isspace(), which are \t \n \v \f \r, the separators U+001C to
\* U+001F, the space, U+0085, U+00A0 and U+1680 (written here as they are)
IsSpace(c) ==
    c \in {" ", "\t", "\n", "\r", "\f", "", "", "", "", "",
           "", " ", " "}

\* characters matched by . (no DOTALL flag)
IsDot(c) == c # "\n"

RECURSIVE LStrip(_)
LStrip(s) == IF Len(s) > 0 /\ IsSpace(CharAt(s, 1)) THEN LStrip(Tail(s)) ELSE s

RECURSIVE RStrip(_)
RStrip(s) ==
    IF Len(s) > 0 /\ IsSpace(CharAt(s, Len(s)))
    THEN RStrip(SubSeq(s, 1, Len(s) - 1))
    ELSE s

\* str.strip()
Strip(s) == RStrip(LStrip(s))

\* needle in haystack (substring test)
Contains(hay, needle) ==
    \E i \in 1..(Len(hay) - Len(needle) + 1) :
        SubSeq(hay, i, i + Len(needle) - 1) = needle

\* length of the run of non-space characters of s starting at position i
RECURSIVE WordLen(_, _)
WordLen(s, i) ==
    IF i > Len(s) \/ IsSpace(CharAt(s, i)) THEN 0 ELSE 1 + WordLen(s, i + 1)

\* str.split(): the maximal runs of non-whitespace characters, in order
RECURSIVE SplitFrom(_, _)
SplitFrom(s, i) ==
    IF i > Len(s) THEN <<>>
    ELSE IF IsSpace(CharAt(s, i)) THEN SplitFrom(s, i + 1)
    ELSE LET n == WordLen(s, i)
         IN  <<SubSeq(s, i, i + n - 1)>> \o SplitFrom(s, i + n)

Split(s) == SplitFrom(s, 1)

\* x in list
InList(x, list) == \E i \in 1..Len(list) : list[i] = x

\* set(list)
ToSet(list) == {list[i] : i \in 1..Len(list)}

\* list[:n]
Take(list, n) == SubSeq(list, 1, IF Len(list) < n THEN Len(list) ELSE n)

\* [x for x in list if x not in excluded]
RECURSIVE Without(_, _)
Without(list, excluded) ==
    IF list = <<>> THEN <<>>
    ELSE (IF InList(Head(list), excluded) THEN <<>> ELSE <<Head(list)>>)
         \o Without(Tail(list), excluded)

\* list.index(x): position (1-based) of the first occurrence, 0 for ValueError
ListIndex(list, x) ==
    IF InList(x, list)
    THEN CHOOSE i \in 1..Len(list) :
            list[i] = x /\ \A j \in 1..(i - 1) : list[j] # x
    ELSE 0

\* the orders in which list(set) may enumerate a set
Orderings(S) ==
    {p \in [1..Cardinality(S) -> S] : \A i, j \in 1..Cardinality(S) : p[i] = p[j] => i = j}

(***************************************************************************)
(* Python dict: insertion-ordered keys, assignment to a present key keeps  *)
(* the key's position and replaces the value.                              *)
(***************************************************************************)
EmptyDict == [order |-> <<>>, at |-> <<>>]

HasKey(d, k) == InList(k, d.order)

DictSet(d, k, v) ==
    [order |-> IF HasKey(d, k) THEN d.order ELSE Append(d.order, k),
     at    |-> IF HasKey(d, k)
               THEN [i \in 1..Len(d.order) |-> IF d.order[i] = k THEN v ELSE d.at[i]]
               ELSE Append(d.at, v)]

DictGet(d, k) == d.at[ListIndex(d.order, k)]

(***************************************************************************)
(* Regular expressions of query_patterns, matched as re.search does:       *)
(* leftmost start, greedy quantifiers, alternatives in written order,      *)
(* backtracking.  A pattern is a sequence of atoms.                        *)
(***************************************************************************)
Lit(s)       == [t |-> "lit", s |-> s,  alts |-> <<>>, opt |-> FALSE]
WS           == [t |-> "ws",  s |-> "", alts |-> <<>>, opt |-> FALSE]
AnyGroup     == [t |-> "any", s |-> "", alts |-> <<>>, opt |-> FALSE]
Alt(as, opt) == [t |-> "alt", s |-> "", alts |-> as,   opt |-> opt]

\* the value of a group: None when it took no part in the match, its text
\* otherwise
NoGroup == [took_part |-> FALSE]
GroupText(text) == [took_part |-> TRUE, text |-> text]

NoMatch == [ok |-> FALSE, groups |-> <<>>]

\* length of the run of \s characters starting at position i
RECURSIVE SpaceRun(_, _)
SpaceRun(s, i) ==
    IF i <= Len(s) /\ IsSpace(CharAt(s, i)) THEN 1 + SpaceRun(s, i + 1) ELSE 0

\* length of the run of characters matched by . starting at position i
RECURSIVE DotRun(_, _)
DotRun(s, i) ==
    IF i <= Len(s) /\ IsDot(CharAt(s, i)) THEN 1 + DotRun(s, i + 1) ELSE 0

\* the string s occurs in q at position pos, compared as re.IGNORECASE
\* compares: character by character, whatever the case of either
StartsWithAt(q, pos, s) ==
    /\ pos + Len(s) - 1 <= Len(q)
    /\ \A i \in 1..Len(s) :
          LET c == CharAt(q, pos + i - 1)
          IN  \/ c = CharAt(s, i)
              \/ c \notin NoLowerChars /\ LowerChar(c) = LowerChar(CharAt(s, i))

RECURSIVE MatchFrom(_, _, _, _)
RECURSIVE TryLens(_, _, _, _, _)
RECURSIVE TryAlts(_, _, _, _, _)

\* match atoms k.. of pat against q from position pos
MatchFrom(pat, k, q, pos) ==
    IF k > Len(pat) THEN [ok |-> TRUE, groups |-> <<>>]
    ELSE LET a == pat[k]
         IN  CASE a.t = "lit" ->
                    IF StartsWithAt(q, pos, a.s)
                    THEN MatchFrom(pat, k + 1, q, pos + Len(a.s))
                    ELSE NoMatch
               [] a.t = "ws"  -> TryLens(pat, k, q, pos, SpaceRun(q, pos))
               [] a.t = "any" -> TryLens(pat, k, q, pos, DotRun(q, pos))
               [] a.t = "alt" -> TryAlts(pat, k, q, pos, 1)

\* greedy + : the longest run first, then shorter ones down to one character
TryLens(pat, k, q, pos, n) ==
    IF n < 1 THEN NoMatch
    ELSE LET r == MatchFrom(pat, k + 1, q, pos + n)
         IN  IF r.ok
             THEN IF pat[k].t = "any"
                  THEN [ok |-> TRUE, groups |-> <<GroupText(SubSeq(q, pos, pos + n - 1))>> \o r.groups]
                  ELSE r
             ELSE TryLens(pat, k, q, pos, n - 1)

\* (x|y) and (x|y)? : alternatives in order, then the empty match if optional
TryAlts(pat, k, q, pos, j) ==
    LET a == pat[k]
    IN  IF j > Len(a.alts)
        THEN IF a.opt
             THEN LET r == MatchFrom(pat, k + 1, q, pos)
                  IN  IF r.ok THEN [ok |-> TRUE, groups |-> <<NoGroup>> \o r.groups]
                      ELSE NoMatch
             ELSE NoMatch
        ELSE LET r == IF StartsWithAt(q, pos, a.alts[j])
                      THEN MatchFrom(pat, k + 1, q, pos + Len(a.alts[j]))
                      ELSE NoMatch
             IN  IF r.ok
                 THEN [ok |-> TRUE,
                       groups |-> <<GroupText(SubSeq(q, pos, pos + Len(a.alts[j]) - 1))>>
                                      \o r.groups]
                 ELSE TryAlts(pat, k, q, pos, j + 1)

\* the match at the leftmost start position from start on
RECURSIVE SearchFrom(_, _, _)
SearchFrom(pat, q, start) ==
    IF start > Len(q) + 1 THEN [ok |-> FALSE, groups |-> <<>>, start |-> 0]
    ELSE LET r == MatchFrom(pat, 1, q, start)
         IN  IF r.ok THEN [ok |-> TRUE, groups |-> r.groups, start |-> start]
             ELSE SearchFrom(pat, q, start + 1)

\* re.search(pattern, q)
ReSearch(pat, q) == SearchFrom(pat, q, 1)

\* self.query_patterns, in declaration order
query_patterns == <<
    [type |-> "definition", patterns |-> <<
        <<Lit("what is "), Alt(<<"a", "an">>, TRUE), WS, AnyGroup>>,
        <<Lit("define"), WS, AnyGroup>>,
        <<Lit("explain"), WS, AnyGroup>>,
        <<Lit("describe"), WS, AnyGroup>> >>],
    [type |-> "comparison", patterns |-> <<
        <<Alt(<<"difference", "compare">>, FALSE), WS, Lit("between"), WS,
          AnyGroup, WS, Lit("and"), WS, AnyGroup>>,
        <<AnyGroup, WS, Lit("vs"), WS, AnyGroup>>,
        <<Lit("how"), WS, Lit("does"), WS, AnyGroup, WS, Lit("differ"), WS,
          Lit("from"), WS, AnyGroup>> >>],
    [type |-> "implementation", patterns |-> <<
        <<Lit("how"), WS, Lit("to"), WS, Lit("implement"), WS, AnyGroup>>,
        <<Lit("implementation"), WS, Lit("of"), WS, AnyGroup>>,
        <<Lit("code"), WS, Lit("for"), WS, AnyGroup>>,
        <<Lit("program"), WS, Lit("for"), WS, AnyGroup>> >>],
    [type |-> "complexity", patterns |-> <<
        <<Alt(<<"time", "space">>, FALSE), WS, Lit("complexity"), WS, Lit("of"), WS, AnyGroup>>,
        <<Lit("how"), WS, Alt(<<"efficient", "fast">>, FALSE), WS, Lit("is"), WS, AnyGroup>>,
        <<Lit("performance"), WS, Lit("of"), WS, AnyGroup>> >>],
    [type |-> "application", patterns |-> <<
        <<Alt(<<"use", "application">>, FALSE), WS, Lit("of"), WS, AnyGroup>>,
        <<Lit("when"), WS, Lit("to"), WS, Lit("use"), WS, AnyGroup>>,
        <<Lit("where"), WS, Lit("is"), WS, AnyGroup, WS, Lit("used")>> >>] >>

(***************************************************************************)
(* QueryConceptMapper._build_concept_index                                 *)
(***************************************************************************)
\* str.replace('_', ' ')
RECURSIVE ReplaceUnderscores(_)
ReplaceUnderscores(s) ==
    IF Len(s) = 0 THEN ""
    ELSE (IF CharAt(s, 1) = "_" THEN " " ELSE CharAt(s, 1)) \o ReplaceUnderscores(Tail(s))

\* the resources of a topic whose title mentions the subtopic
RECURSIVE TitleFilter(_, _)
TitleFilter(resources, subtopic) ==
    IF resources = <<>> THEN <<>>
    ELSE (IF Contains(Lower(Get(Head(resources), "title", "")), Lower(subtopic))
          THEN <<Head(resources)>> ELSE <<>>)
         \o TitleFilter(Tail(resources), subtopic)

\* as SubtopicRecord, but the subtopic gets all the resources of its topic
SubtopicRecord_AllResources(topic_entry, subtopic) ==
    [type         |-> "subtopic",
     parent_topic |-> Get(topic_entry, "name", ""),
     display_name |-> subtopic,
     resources    |-> Get(topic_entry, "resources", <<>>)]

SubtopicRecord(topic_entry, subtopic) ==
    [type         |-> "subtopic",
     parent_topic |-> Get(topic_entry, "name", ""),
     display_name |-> subtopic,
     resources    |-> TitleFilter(Get(topic_entry, "resources", <<>>), subtopic)]

TopicRecord(topic_entry) ==
    [type         |-> "topic",
     display_name |-> Get(topic_entry, "display_name", Get(topic_entry, "name", "")),
     subtopics    |-> Get(topic_entry, "subtopics", <<>>),
     resources    |-> Get(topic_entry, "resources", <<>>)]

\* the inner loop: one index entry per subtopic, keyed by its lower-cased text
RECURSIVE IndexSubtopics(_, _, _)
IndexSubtopics(index, topic_entry, subtopics) ==
    IF subtopics = <<>> THEN index
    ELSE IndexSubtopics(
            DictSet(index, Lower(Head(subtopics)), SubtopicRecord(topic_entry, Head(subtopics))),
            topic_entry, Tail(subtopics))

\* the canonical name, the alternative forms, all referring to one record
IndexTopicNames(index, topic_entry) ==
    LET topic_name   == Get(topic_entry, "name", "")
        i1           == DictSet(index, topic_name, TopicRecord(topic_entry))
        alt_name     == ReplaceUnderscores(topic_name)
        i2           == IF alt_name # topic_name
                        THEN DictSet(i1, alt_name, DictGet(i1, topic_name))
                        ELSE i1
        display_name == Lower(Get(topic_entry, "display_name", ""))
    IN  IF display_name # "" /\ display_name # topic_name /\ display_name # alt_name
        THEN DictSet(i2, display_name, DictGet(i2, topic_name))
        ELSE i2

\* as IndexTopic, but an entry without a name is passed over
IndexTopic_SkipsUnnamed(index, topic_entry) ==
    IF "name" \notin DOMAIN topic_entry THEN index
    ELSE IndexSubtopics(IndexTopicNames(index, topic_entry), topic_entry,
                        Get(topic_entry, "subtopics", <<>>))

\* one iteration of the loop over the topics
IndexTopic(index, topic_entry) ==
    IndexSubtopics(IndexTopicNames(index, topic_entry), topic_entry,
                   Get(topic_entry, "subtopics", <<>>))

RECURSIVE IndexTopics(_, _)
IndexTopics(index, topics) ==
    IF topics = <<>> THEN index
    ELSE IndexTopics(IndexTopic(index, Head(topics)), Tail(topics))

BuildConceptIndex(doc) == IndexTopics(EmptyDict, Get(doc, "topics", <<>>))

(***************************************************************************)
(* QueryConceptMapper._identify_query_type                                 *)
(***************************************************************************)
\* match.group(n)
Group(m, n) == m.groups[n]

\* whether a match of a pattern of the category makes the function return
Returns(query_type, m) ==
    m.ok /\ IF query_type = "comparison" THEN Len(m.groups) >= 2 ELSE Len(m.groups) >= 1

\* as StrippedGroups, but .strip() is called on the first group
StrippedGroups_First(query_type, m) == <<1>>

\* the groups on which .strip() is called for a match of the category
StrippedGroups(query_type, m) ==
    LET n == Len(m.groups)
    IN  IF query_type = "comparison"
        THEN IF n >= 3 THEN <<2, 3>> ELSE <<2>>
        ELSE <<n>>

\* .strip() on the None of a group that took no part raises AttributeError
StripRaises(query_type, m) ==
    \E i \in 1..Len(StrippedGroups(query_type, m)) :
        Group(m, StrippedGroups(query_type, m)[i]) = NoGroup

\* the value returned for a match of a pattern of a category; none when
\* .strip() raises
ConceptsOfMatch(query_type, m) ==
    LET n == Len(m.groups)
    IN  IF StripRaises(query_type, m) THEN <<>>
        ELSE IF query_type = "comparison"
        THEN <<Strip(Group(m, 2).text), IF n >= 3 THEN Strip(Group(m, 3).text) ELSE "">>
        ELSE <<Strip(Group(m, n).text)>>

\* as IdentifyFrom, but a later matching pattern replaces an earlier one
RECURSIVE IdentifyFrom_LastWins(_, _, _)
IdentifyFrom_LastWins(query, ci, pi) ==
    IF ci > Len(query_patterns) THEN [query_type |-> "general", concepts |-> <<>>, raised |-> FALSE]
    ELSE IF pi > Len(query_patterns[ci].patterns) THEN IdentifyFrom_LastWins(query, ci + 1, 1)
    ELSE LET query_type == query_patterns[ci].type
             m          == ReSearch(query_patterns[ci].patterns[pi], query)
             later      == IdentifyFrom_LastWins(query, ci, pi + 1)
         IN  IF later.query_type # "general" THEN later
             ELSE IF Returns(query_type, m)
             THEN [query_type |-> query_type, concepts |-> ConceptsOfMatch(query_type, m),
                   raised |-> StripRaises(query_type, m)]
             ELSE later

\* as IdentifyFrom, but the default result carries the query as a concept
RECURSIVE IdentifyFrom_DefaultQuery(_, _, _)
IdentifyFrom_DefaultQuery(query, ci, pi) ==
    IF ci > Len(query_patterns) THEN [query_type |-> "general", concepts |-> <<query>>, raised |-> FALSE]
    ELSE IF pi > Len(query_patterns[ci].patterns) THEN IdentifyFrom_DefaultQuery(query, ci + 1, 1)
    ELSE LET query_type == query_patterns[ci].type
             m          == ReSearch(query_patterns[ci].patterns[pi], query)
         IN  IF Returns(query_type, m)
             THEN [query_type |-> query_type, concepts |-> ConceptsOfMatch(query_type, m),
                   raised |-> StripRaises(query_type, m)]
             ELSE IdentifyFrom_DefaultQuery(query, ci, pi + 1)

\* the two nested loops, from pattern pi of category ci on
RECURSIVE IdentifyFrom(_, _, _)
IdentifyFrom(query, ci, pi) ==
    IF ci > Len(query_patterns) THEN [query_type |-> "general", concepts |-> <<>>, raised |-> FALSE]
    ELSE IF pi > Len(query_patterns[ci].patterns) THEN IdentifyFrom(query, ci + 1, 1)
    ELSE LET query_type == query_patterns[ci].type
             m          == ReSearch(query_patterns[ci].patterns[pi], query)
         IN  IF Returns(query_type, m)
             THEN [query_type |-> query_type, concepts |-> ConceptsOfMatch(query_type, m),
                   raised |-> StripRaises(query_type, m)]
             ELSE IdentifyFrom(query, ci, pi + 1)

IdentifyQueryType(query) == IdentifyFrom(query, 1, 1)

(***************************************************************************)
(* QueryConceptMapper._extract_concepts_from_query                         *)
(***************************************************************************)
\* first pass: the index keys that occur in the query, in index order
RECURSIVE ExactMatches(_, _)
ExactMatches(keys, query) ==
    IF keys = <<>> THEN <<>>
    ELSE (IF Contains(query, Head(keys)) THEN <<Head(keys)>> ELSE <<>>)
         \o ExactMatches(Tail(keys), query)

\* as WordMatch, but the word only has to occur somewhere in the query
WordMatch_Substring(concept_name, query) ==
    LET concept_words == Split(concept_name)
    IN  \E i \in 1..Len(concept_words) :
            Len(concept_words[i]) > 3 /\ Contains(query, concept_words[i])

\* a word of the concept name, longer than 3, is a token of the query
WordMatch(concept_name, query) ==
    LET concept_words == Split(concept_name)
    IN  \E i \in 1..Len(concept_words) :
            Len(concept_words[i]) > 3 /\ InList(concept_words[i], Split(query))

\* second pass
RECURSIVE PartialMatches(_, _)
PartialMatches(keys, query) ==
    IF keys = <<>> THEN <<>>
    ELSE (IF WordMatch(Head(keys), query) THEN <<Head(keys)>> ELSE <<>>)
         \o PartialMatches(Tail(keys), query)

\* as ExtractConceptsFromQuery, but the first pass stops at the first key found
ExtractConceptsFromQuery_FirstOnly(index, query) ==
    LET exact == Take(ExactMatches(index.order, query), 1)
    IN  IF exact = <<>> THEN PartialMatches(index.order, query) ELSE exact

ExtractConceptsFromQuery(index, query) ==
    LET exact == ExactMatches(index.order, query)
    IN  IF exact = <<>> THEN PartialMatches(index.order, query) ELSE exact

(***************************************************************************)
(* QueryConceptMapper._find_related_concepts                               *)
(***************************************************************************)
\* what one concept contributes to the accumulated list
RelatedOf(index, concept) ==
    IF ~HasKey(index, concept) THEN <<>>
    ELSE LET concept_info == DictGet(index, concept)
         IN  IF Get(concept_info, "type", "") = "topic"
             THEN Get(concept_info, "subtopics", <<>>)
             ELSE IF Get(concept_info, "type", "") = "subtopic"
                     /\ HasKey(index, Get(concept_info, "parent_topic", ""))
             THEN Get(DictGet(index, Get(concept_info, "parent_topic", "")), "subtopics", <<>>)
             ELSE <<>>

RECURSIVE RelatedAccumulate(_, _)
RelatedAccumulate(index, concepts) ==
    IF concepts = <<>> THEN <<>>
    ELSE RelatedOf(index, Head(concepts)) \o RelatedAccumulate(index, Tail(concepts))

RelatedLimit == 5

\* as FindRelatedConcepts, without the removal of the input concepts
FindRelatedConcepts_Unfiltered(index, concepts) ==
    Take(RelatedAccumulate(index, concepts), RelatedLimit)

FindRelatedConcepts(index, concepts) ==
    Take(Without(RelatedAccumulate(index, concepts), concepts), RelatedLimit)

(***************************************************************************)
(* QueryConceptMapper._get_relevant_resources                              *)
(***************************************************************************)
TagResource(resource, concept) ==
    [title   |-> Get(resource, "title", ""),
     url     |-> Get(resource, "url", ""),
     source  |-> Get(resource, "source", ""),
     concept |-> concept]

RECURSIVE TagResources(_, _)
TagResources(resources, concept) ==
    IF resources = <<>> THEN <<>>
    ELSE <<TagResource(Head(resources), concept)>> \o TagResources(Tail(resources), concept)

\* the first loop: every resource of every indexed concept, tagged
RECURSIVE GatherResources(_, _)
GatherResources(index, concepts) ==
    IF concepts = <<>> THEN <<>>
    ELSE (IF HasKey(index, Head(concepts))
          THEN TagResources(Get(DictGet(index, Head(concepts)), "resources", <<>>), Head(concepts))
          ELSE <<>>)
         \o GatherResources(index, Tail(concepts))

\* the test that admits a resource into unique_resources
KeepResource(url, seen_urls) == url # "" /\ url \notin seen_urls

\* the second loop
RECURSIVE UniqueResources(_, _)
UniqueResources(resources, seen_urls) ==
    IF resources = <<>> THEN <<>>
    ELSE LET url == Get(Head(resources), "url", "")
         IN  IF KeepResource(url, seen_urls)
             THEN <<Head(resources)>> \o UniqueResources(Tail(resources), seen_urls \cup {url})
             ELSE UniqueResources(Tail(resources), seen_urls)

ResourceLimit == 10

\* as GetRelevantResources, without the truncation
GetRelevantResources_Uncapped(index, concepts) ==
    UniqueResources(GatherResources(index, concepts), {})

\* as GetRelevantResources, but the list is cut to 10 before the deduplication
GetRelevantResources_TruncateFirst(index, concepts) ==
    UniqueResources(Take(GatherResources(index, concepts), ResourceLimit), {})

GetRelevantResources(index, concepts) ==
    Take(UniqueResources(GatherResources(index, concepts), {}), ResourceLimit)

\* as StoredAfterTagging, but the tag is written into the stored resource
StoredAfterTagging_InPlace(resource, concept) ==
    [k \in DOMAIN resource \cup {"concept"} |->
        IF k = "concept" THEN concept ELSE resource[k]]

\* the stored resource after the resolver has tagged it: the tag goes into
\* a new dict, the stored one is only read
StoredAfterTagging(resource, concept) == resource

RECURSIVE StoredResourcesAfter(_, _)
StoredResourcesAfter(resources, concept) ==
    IF resources = <<>> THEN <<>>
    ELSE <<StoredAfterTagging(Head(resources), concept)>>
         \o StoredResourcesAfter(Tail(resources), concept)

\* the index after _get_relevant_resources(concepts) has run
RECURSIVE IndexAfterResources(_, _)
IndexAfterResources(index, concepts) ==
    IF concepts = <<>> THEN index
    ELSE IndexAfterResources(
            IF HasKey(index, Head(concepts))
            THEN LET concept_info == DictGet(index, Head(concepts))
                 IN  DictSet(index, Head(concepts),
                             [concept_info EXCEPT !.resources =
                                 StoredResourcesAfter(Get(concept_info, "resources", <<>>),
                                                      Head(concepts))])
            ELSE index,
            Tail(concepts))

(***************************************************************************)
(* QueryConceptMapper.analyze_query                                        *)
(***************************************************************************)
CleanQuery(query) == Strip(Lower(query))

\* the outcome of a call that an exception leaves
AttributeError == [raised |-> "AttributeError"]

Raised(result) == "raised" \in DOMAIN result

\* as ExtractedConcepts, but the extractor's keys are added to the
\* classifier's concepts
ExtractedConcepts_Merged(index, clean_query, identified) ==
    identified.concepts \o ExtractConceptsFromQuery(index, clean_query)

\* as ExtractedConcepts, but the fallback extractor is also consulted when
\* none of the classifier's concepts is an index key
ExtractedConcepts_Recovering(index, clean_query, identified) ==
    IF \A i \in 1..Len(identified.concepts) : ~HasKey(index, identified.concepts[i])
    THEN ExtractConceptsFromQuery(index, clean_query)
    ELSE identified.concepts

\* the classifier's concepts, or the fallback extractor's when it has none
ExtractedConcepts(index, clean_query, identified) ==
    IF identified.concepts = <<>>
    THEN ExtractConceptsFromQuery(index, clean_query)
    ELSE identified.concepts

AnalyzeQueryResult(index, query) ==
    LET clean_query        == CleanQuery(query)
        identified         == IdentifyQueryType(clean_query)
        extracted_concepts == ExtractedConcepts(index, clean_query, identified)
    IN  IF identified.raised THEN AttributeError
        ELSE [original_query     |-> query,
              query_type         |-> identified.query_type,
              extracted_concepts |-> extracted_concepts,
              related_concepts   |-> FindRelatedConcepts(index, extracted_concepts),
              resources          |-> GetRelevantResources(index, extracted_concepts)]

\* the index after analyze_query has returned the result
IndexAfterAnalysis(index, result) ==
    IF Raised(result) THEN index
    ELSE IndexAfterResources(index, result.extracted_concepts)

(***************************************************************************)
(* QueryConceptMapper.identify_knowledge_gaps                              *)
(***************************************************************************)
\* the fixed table of advanced concepts per parent topic
AdvancedConcepts(parent_topic) ==
    CASE parent_topic = "arrays" ->
            <<"array searching", "array sorting", "multidimensional arrays">>
      [] parent_topic = "linked_lists" -> <<"doubly linked list", "circular linked list">>
      [] parent_topic \in {"stacks", "queues"} -> <<"stack applications", "queue applications">>
      [] parent_topic = "trees" -> <<"binary search tree", "balanced tree">>
      [] parent_topic = "graphs" -> <<"shortest path", "minimum spanning tree">>
      [] parent_topic = "sorting_algorithms" -> <<"merge sort", "quick sort", "heap sort">>
      [] parent_topic = "searching_algorithms" -> <<"binary search", "hashing">>
      [] parent_topic = "dynamic_programming" -> <<"memoization", "tabulation">>
      [] OTHER -> <<>>

IsSubtopicConcept(index, concept) ==
    HasKey(index, concept) /\ Get(DictGet(index, concept), "type", "") = "subtopic"

\* as PrerequisitesOf, but taking the subtopics after the matched one
PrerequisitesOf_After(index, concept) ==
    IF ~IsSubtopicConcept(index, concept) THEN <<>>
    ELSE LET concept_info == DictGet(index, concept)
             parent_topic == Get(concept_info, "parent_topic", "")
         IN  IF ~HasKey(index, parent_topic) THEN <<>>
             ELSE LET subtopics == Get(DictGet(index, parent_topic), "subtopics", <<>>)
                      idx       == ListIndex(subtopics, Get(concept_info, "display_name", ""))
                  IN  IF idx = 0 THEN <<>> ELSE SubSeq(subtopics, idx + 1, Len(subtopics))

\* the prerequisite candidates one extracted concept adds
PrerequisitesOf(index, concept) ==
    IF ~IsSubtopicConcept(index, concept) THEN <<>>
    ELSE LET concept_info == DictGet(index, concept)
             parent_topic == Get(concept_info, "parent_topic", "")
         IN  IF ~HasKey(index, parent_topic) THEN <<>>
             ELSE LET subtopics == Get(DictGet(index, parent_topic), "subtopics", <<>>)
                      idx       == ListIndex(subtopics, Get(concept_info, "display_name", ""))
                  IN  IF idx = 0 THEN <<>> ELSE SubSeq(subtopics, 1, idx - 1)

\* as GapsOf, but a topic entry adds the advanced concepts of its own name too
GapsOf_TopicsToo(index, concept) ==
    IF ~HasKey(index, concept) THEN <<>>
    ELSE IF IsSubtopicConcept(index, concept)
    THEN AdvancedConcepts(Get(DictGet(index, concept), "parent_topic", ""))
    ELSE AdvancedConcepts(concept)

\* the gap candidates one extracted concept adds
GapsOf(index, concept) ==
    IF ~IsSubtopicConcept(index, concept) THEN <<>>
    ELSE AdvancedConcepts(Get(DictGet(index, concept), "parent_topic", ""))

RECURSIVE PrerequisiteCandidates(_, _)
PrerequisiteCandidates(index, concepts) ==
    IF concepts = <<>> THEN <<>>
    ELSE PrerequisitesOf(index, Head(concepts)) \o PrerequisiteCandidates(index, Tail(concepts))

RECURSIVE GapCandidates(_, _)
GapCandidates(index, concepts) ==
    IF concepts = <<>> THEN <<>>
    ELSE GapsOf(index, Head(concepts)) \o GapCandidates(index, Tail(concepts))

\* set(prerequisite_concepts) - set(extracted_concepts)
PrerequisiteSet(index, extracted) ==
    ToSet(PrerequisiteCandidates(index, extracted)) \ ToSet(extracted)

\* as GapSet, without the subtraction of the prerequisite concepts
GapSet_KeepsPrerequisites(index, extracted) ==
    ToSet(GapCandidates(index, extracted)) \ ToSet(extracted)

\* set(knowledge_gaps) - set(extracted_concepts) - set(prerequisite_concepts)
GapSet(index, extracted) ==
    (ToSet(GapCandidates(index, extracted)) \ ToSet(extracted)) \ PrerequisiteSet(index, extracted)

\* list(set) fixes no order: the result lists are any enumeration of the sets
KnowledgeGapResults(index, query) ==
    LET query_analysis == AnalyzeQueryResult(index, query)
        extracted      == query_analysis.extracted_concepts
    IN  IF Raised(query_analysis) THEN {query_analysis}
        ELSE {[query_analysis         |-> query_analysis,
               prerequisite_concepts  |-> prerequisite_concepts,
               knowledge_gaps         |-> knowledge_gaps,
               prerequisite_resources |-> GetRelevantResources(index, prerequisite_concepts),
               gap_resources          |-> GetRelevantResources(index, knowledge_gaps)] :
                 prerequisite_concepts \in Orderings(PrerequisiteSet(index, extracted)),
                 knowledge_gaps \in Orderings(GapSet(index, extracted))}

\* the index after identify_knowledge_gaps has returned the result
IndexAfterGaps(index, result) ==
    IF Raised(result) THEN index
    ELSE IndexAfterResources(
            IndexAfterResources(IndexAfterAnalysis(index, result.query_analysis),
                                result.prerequisite_concepts),
            result.knowledge_gaps)

(***************************************************************************)
(* Inputs: curriculum documents and query strings.                         *)
(***************************************************************************)
Res(title, url, source) == [title |-> title, url |-> url, source |-> source]

\* a topic as ConceptExtractionUtil writes it, with more than ResourceLimit
\* distinct urls, a repeated url and an empty url
Arrays ==
    [name |-> "arrays", display_name |-> "Arrays",
     subtopics |-> <<"array creation", "array insertion", "array deletion", "array traversal">>,
     resources |-> <<Res("Array Deletion in C", "u1", "geeksforgeeks"),
                     Res("Array insertion", "u2", "geeksforgeeks"),
                     Res("array deletion and array insertion", "u1", "w3schools"),
                     Res("Arrays", "", "w3schools"),
                     Res("Array traversal", "u3", "w3schools"),
                     Res("a4", "u4", "stackoverflow"), Res("a5", "u5", "stackoverflow"),
                     Res("a6", "u6", "stackoverflow"), Res("a7", "u7", "stackoverflow"),
                     Res("a8", "u8", "stackoverflow"), Res("a9", "u9", "stackoverflow"),
                     Res("a10", "u10", "stackoverflow"), Res("a11", "u11", "stackoverflow")>>]

\* resources without url, and a url shared with Arrays
Trees ==
    [name |-> "trees", display_name |-> "Trees",
     subtopics |-> <<"binary tree", "binary search tree", "tree traversal">>,
     resources |-> <<Res("Binary Search Tree", "t1", "geeksforgeeks"),
                     Res("Binary tree traversal", "", "w3schools"),
                     [title |-> "Tree Traversal", source |-> "stackoverflow"],
                     Res("binary tree in an array", "u1", "stackoverflow")>>]

\* canonical name, space form and display name are three different keys
LinkedLists ==
    [name |-> "linked_lists", display_name |-> "Linked List",
     subtopics |-> <<"singly linked list", "doubly linked list">>,
     resources |-> <<Res("Singly Linked List", "l1", "geeksforgeeks"),
                     Res("Doubly linked list", "l2", "w3schools")>>]

\* three different keys, a subtopic whose text is the display name, and a
\* subtopic written with upper-case letters
HashTables ==
    [name |-> "hash_tables", display_name |-> "Hashing",
     subtopics |-> <<"Hash Function", "hashing">>,
     resources |-> <<Res("Hashing", "h1", "geeksforgeeks"),
                     Res("A hash function", "h2", "stackoverflow")>>]

TopicPool == <<Arrays, Trees, LinkedLists, HashTables>>

\* the sequences of at most n different positions of the pool
RECURSIVE TopicChoices(_)
TopicChoices(n) ==
    IF n = 0 THEN {<<>>}
    ELSE TopicChoices(n - 1) \cup
         {Append(c, i) : c \in {d \in TopicChoices(n - 1) : Len(d) = n - 1},
                         i \in 1..Len(TopicPool)}

Distinct(c) == \A i, j \in 1..Len(c) : c[i] = c[j] => i = j

\* the curriculum documents: json with a "topics" list
Curricula ==
    {[topics |-> [i \in 1..Len(c) |-> TopicPool[c[i]]]] :
        c \in {d \in TopicChoices(MaxTopics) : Distinct(d)}}

\* queries written out in full
FixedQueries ==
    {"What is a binary search tree?",
     "what is binary search tree",
     "  What is a Binary Search Tree ",
     "what is an array deletion",
     "what is the difference between stack and queue",
     "Difference between stack and queue",
     "difference between trees and trees",
     "compare between binary tree and tree traversal",
     "how does binary tree differ from linked list",
     "How to implement quicksort?",
     "Time complexity of array insertion",
     "how fast is hashing",
     "Applications of graphs in real life",
     "use of hash function",
     "where is linked list used",
     "arrays and trees",
     "arrays vs define trees",
     "hashing",
     "linked list",
     "define linked lists",
     "arrays\ttree traversal",
     "tree traversal",
     "define tree traversal",
     "define arrays",
     "define hash tables",
     "define tree traversal\nplease",
     "trees binary search tree",
     "Definetree traversal ",   \* U+000B twice, U+00A0 at the end
     "EXPLAIN ÉCOLE ΟΔΟΣ",
     ""}

\* the words and phrases queries are composed of
QueryParts == <<"what is", "vs", "arrays", "hashing">>

\* the phrases of a choice of parts joined by single spaces
RECURSIVE JoinParts(_)
JoinParts(c) ==
    IF c = <<>> THEN ""
    ELSE IF Len(c) = 1 THEN QueryParts[c[1]]
    ELSE QueryParts[c[1]] \o " " \o JoinParts(Tail(c))

RECURSIVE PartChoices(_)
PartChoices(n) ==
    IF n = 0 THEN {<<>>}
    ELSE PartChoices(n - 1) \cup
         {Append(c, i) : c \in {d \in PartChoices(n - 1) : Len(d) = n - 1},
                         i \in 1..Len(QueryParts)}

Queries == FixedQueries \cup {JoinParts(c) : c \in PartChoices(MaxParts)}

(***************************************************************************)
(* Inputs: hand-written curriculum documents whose entries lack fields.    *)
(***************************************************************************)
\* a topic without display_name and resources; subtopics with short words
Sorting ==
    [name |-> "sorting_algorithms",
     subtopics |-> <<"quick sort", "big o notation">>]

\* a topic without name; a resource without title, one without source
Unnamed ==
    [display_name |-> "Graphs",
     subtopics |-> <<"graph traversal", "shortest path">>,
     resources |-> <<[url |-> "g1", source |-> "w3schools"],
                     [title |-> "Shortest path", url |-> "g2"]>>]

\* a topic without subtopics
Recursion ==
    [name |-> "recursion", display_name |-> "Recursion",
     resources |-> <<Res("Recursion", "r1", "geeksforgeeks")>>]

\* a topic entry without any field: {}
EmptyEntry == [field \in {} |-> ""]

PartialPool == <<Sorting, Unnamed, Recursion, EmptyEntry>>

RECURSIVE PartialChoices(_)
PartialChoices(n) ==
    IF n = 0 THEN {<<>>}
    ELSE PartialChoices(n - 1) \cup
         {Append(c, i) : c \in {d \in PartialChoices(n - 1) : Len(d) = n - 1},
                         i \in 1..Len(PartialPool)}

\* documents with a "topics" list of such entries, and the document {}
PartialCurricula ==
    {[topics |-> [i \in 1..Len(c) |-> PartialPool[c[i]]]] :
        c \in {d \in PartialChoices(MaxTopics) : Distinct(d)}}
    \cup {EmptyEntry}

PartialQueries ==
    {"define graph traversal",
     "define shortest path",
     "what is  shortest path",
     "Graphs",
     "quicksort algorithm",
     "sort",
     "sorting",
     "quicksort sorting",
     "big o",
     "notation basics",
     "recursion",
     "compare between quick sort and recursion",
     "define heaps",
     "heaps",
     "Notationbasics",   \* U+001C between the words, U+0085 at the end
     ""}

(***************************************************************************)
(* The mapper as a state machine.                                          *)
(***************************************************************************)
NoResult == <<>>

\* the local variables of a call a worker is making, and where it stands
IdleFrame ==
    [pc |-> "idle", op |-> "", query |-> "", clean_query |-> "",
     identified |-> NoResult, extracted_concepts |-> <<>>, related_concepts |-> <<>>,
     analysis |-> NoResult, prerequisite_concepts |-> <<>>, knowledge_gaps |-> <<>>,
     result |-> NoResult]

NoWorkers == [w \in 1..MaxWorkers |-> IdleFrame]

\* what is found at the path curriculum_file: nothing, something open()
\* refuses (a directory), bytes that are not UTF-8 text, text that is not
\* JSON, or a JSON document
Missing == [kind |-> "missing"]
Directory == [kind |-> "directory"]
Undecodable == [kind |-> "bytes"]
Malformed == [kind |-> "text"]
JsonFile(document) == [kind |-> "json", document |-> document]

\* raised by f.read() inside json.load; a ValueError that is neither a
\* json.JSONDecodeError nor an IOError
UnicodeDecodeError == [raised |-> "UnicodeDecodeError"]

\* the outcome of a call that returns value
Returned(value) == [returned |-> value]

\* _load_curriculum: except (json.JSONDecodeError, IOError) returns the
\* empty curriculum, any other exception leaves the call
LoadCurriculum(file) ==
    CASE file.kind \in {"missing", "directory"} -> Returned([topics |-> <<>>])
      [] file.kind = "bytes" -> UnicodeDecodeError
      [] file.kind = "text" -> Returned([topics |-> <<>>])
      [] file.kind = "json" -> Returned(file.document)

\* __init__: load the curriculum, build the index
Init ==
    /\ curriculum \in Curricula
    /\ concept_index = BuildConceptIndex(curriculum)
    /\ extraction = "none"
    /\ last_call = "none"
    /\ analysis = NoResult
    /\ gaps = NoResult
    /\ workers = NoWorkers
    /\ input_dir = <<>>
    /\ concept_structures = EmptyDict
    /\ pending = <<>>
    /\ curriculum_file = JsonFile(curriculum)
    /\ construction = "returned"

\* analyze_query(query), called when no result is pending: calls are synchronous
AnalyzeQuery(query) ==
    /\ construction = "returned"
    /\ last_call = "none"
    /\ analysis' = AnalyzeQueryResult(concept_index, query)
    /\ gaps' = NoResult
    /\ last_call' = "analyze_query"
    /\ concept_index' = IndexAfterAnalysis(concept_index, analysis')
    /\ UNCHANGED <<curriculum, workers, input_dir, concept_structures, pending,
                 curriculum_file, construction, extraction>>

\* identify_knowledge_gaps(query)
IdentifyKnowledgeGaps(query) ==
    /\ construction = "returned"
    /\ last_call = "none"
    /\ gaps' \in KnowledgeGapResults(concept_index, query)
    /\ analysis' = IF Raised(gaps') THEN gaps' ELSE gaps'.query_analysis
    /\ last_call' = "identify_knowledge_gaps"
    /\ concept_index' = IndexAfterGaps(concept_index, gaps')
    /\ UNCHANGED <<curriculum, workers, input_dir, concept_structures, pending,
                 curriculum_file, construction, extraction>>

\* the caller is done with the returned value and goes on to its next query
NextQuery ==
    /\ last_call # "none"
    /\ last_call' = "none"
    /\ analysis' = NoResult
    /\ gaps' = NoResult
    /\ UNCHANGED <<curriculum, concept_index, workers, input_dir, concept_structures, pending,
                 curriculum_file, construction, extraction>>

Next ==
    \/ \E query \in Queries : AnalyzeQuery(query)
    \/ \E query \in Queries : IdentifyKnowledgeGaps(query)
    \/ NextQuery

Spec == Init /\ [][Next]_vars

\* the mapper constructed from a document whose entries lack fields
InitPartial ==
    /\ curriculum \in PartialCurricula
    /\ concept_index = BuildConceptIndex(curriculum)
    /\ extraction = "none"
    /\ last_call = "none"
    /\ analysis = NoResult
    /\ gaps = NoResult
    /\ workers = NoWorkers
    /\ input_dir = <<>>
    /\ concept_structures = EmptyDict
    /\ pending = <<>>
    /\ curriculum_file = JsonFile(curriculum)
    /\ construction = "returned"

NextPartial ==
    \/ \E query \in PartialQueries : AnalyzeQuery(query)
    \/ \E query \in PartialQueries : IdentifyKnowledgeGaps(query)
    \/ NextQuery

SpecPartial == InitPartial /\ [][NextPartial]_vars

(***************************************************************************)
(* The mapper constructed from whatever is found at the path               *)
(* curriculum_file; a constructor that raises leaves no mapper to call.    *)
(***************************************************************************)
CurriculumFiles ==
    {Missing, Directory, Undecodable, Malformed}
    \cup {JsonFile(document) :
            document \in {[topics |-> <<>>], EmptyEntry, [topics |-> <<Trees>>]}}

InitLoad ==
    /\ curriculum_file \in CurriculumFiles
    /\ LET loaded == LoadCurriculum(curriculum_file)
       IN  IF Raised(loaded)
           THEN /\ construction = loaded.raised
                /\ curriculum = NoResult
                /\ concept_index = EmptyDict
           ELSE /\ construction = "returned"
                /\ curriculum = loaded.returned
                /\ concept_index = BuildConceptIndex(loaded.returned)
    /\ extraction = "none"
    /\ last_call = "none"
    /\ analysis = NoResult
    /\ gaps = NoResult
    /\ workers = NoWorkers
    /\ input_dir = <<>>
    /\ concept_structures = EmptyDict
    /\ pending = <<>>

SpecLoad == InitLoad /\ [][Next]_vars

(***************************************************************************)
(* Several workers calling one mapper concurrently.  A worker's call is    *)
(* the sequence of the statements of analyze_query and                     *)
(* identify_knowledge_gaps; the steps of different workers interleave.     *)
(***************************************************************************)
WorkerCurricula == {[topics |-> <<Trees, LinkedLists>>]}

WorkerQueries == {"define binary search tree", "define trees", "Linked List"}

Operations == {"analyze_query", "identify_knowledge_gaps"}

\* as Frame, but extracted_concepts is kept in one place for all workers
Frame_Shared(frames, w) ==
    [frames[w] EXCEPT !.extracted_concepts = frames[1].extracted_concepts]

\* the locals of the call of worker w: every call has its own
Frame(frames, w) == frames[w]

\* worker w has its locals replaced by frame
SetFrame(w, frame) ==
    /\ workers' = [workers EXCEPT ![w] = frame]
    /\ UNCHANGED <<curriculum, last_call, analysis, gaps, input_dir, concept_structures, pending,
                 curriculum_file, construction, extraction>>

\* the call is made
WorkerCall(w, op, query) ==
    /\ construction = "returned"
    /\ Frame(workers, w).pc = "idle"
    /\ SetFrame(w, [IdleFrame EXCEPT !.pc = "classify", !.op = op, !.query = query])
    /\ UNCHANGED concept_index

\* clean_query = ...; query_type, extracted_concepts = self._identify_query_type(...)
WorkerClassify(w) ==
    LET frame       == Frame(workers, w)
        clean_query == CleanQuery(frame.query)
        identified  == IdentifyQueryType(clean_query)
    IN  /\ frame.pc = "classify"
        /\ SetFrame(w, IF identified.raised
                       THEN [frame EXCEPT !.pc = "done", !.result = AttributeError]
                       ELSE [frame EXCEPT !.pc = "extract", !.clean_query = clean_query,
                                          !.identified = identified])
        /\ UNCHANGED concept_index

\* if not extracted_concepts: extracted_concepts = self._extract_concepts_from_query(...)
WorkerExtract(w) ==
    LET frame == Frame(workers, w)
    IN  /\ frame.pc = "extract"
        /\ SetFrame(w, [frame EXCEPT !.pc = "related",
                           !.extracted_concepts =
                               ExtractedConcepts(concept_index, frame.clean_query,
                                                 frame.identified)])
        /\ UNCHANGED concept_index

\* related_concepts = self._find_related_concepts(extracted_concepts)
WorkerRelated(w) ==
    LET frame == Frame(workers, w)
    IN  /\ frame.pc = "related"
        /\ SetFrame(w, [frame EXCEPT !.pc = "resources",
                           !.related_concepts =
                               FindRelatedConcepts(concept_index, frame.extracted_concepts)])
        /\ UNCHANGED concept_index

\* resources = self._get_relevant_resources(extracted_concepts); result = {...}
WorkerResources(w) ==
    LET frame  == Frame(workers, w)
        result == [original_query     |-> frame.query,
                   query_type         |-> frame.identified.query_type,
                   extracted_concepts |-> frame.extracted_concepts,
                   related_concepts   |-> frame.related_concepts,
                   resources          |-> GetRelevantResources(concept_index,
                                                               frame.extracted_concepts)]
    IN  /\ frame.pc = "resources"
        /\ SetFrame(w, IF frame.op = "analyze_query"
                       THEN [frame EXCEPT !.pc = "done", !.result = result]
                       ELSE [frame EXCEPT !.pc = "prerequisites", !.analysis = result])
        /\ concept_index' = IndexAfterResources(concept_index, frame.extracted_concepts)

\* the loop over the extracted concepts and the two set differences
WorkerPrerequisites(w) ==
    LET frame == Frame(workers, w)
    IN  /\ frame.pc = "prerequisites"
        /\ \E prerequisite_concepts \in
                  Orderings(PrerequisiteSet(concept_index, frame.analysis.extracted_concepts)),
              knowledge_gaps \in
                  Orderings(GapSet(concept_index, frame.analysis.extracted_concepts)) :
              SetFrame(w, [frame EXCEPT !.pc = "gap_resources",
                             !.prerequisite_concepts = prerequisite_concepts,
                             !.knowledge_gaps = knowledge_gaps])
        /\ UNCHANGED concept_index

\* the resources of the prerequisites and of the gaps; result = {...}
WorkerGapResources(w) ==
    LET frame  == Frame(workers, w)
        result == [query_analysis         |-> frame.analysis,
                   prerequisite_concepts  |-> frame.prerequisite_concepts,
                   knowledge_gaps         |-> frame.knowledge_gaps,
                   prerequisite_resources |->
                       GetRelevantResources(concept_index, frame.prerequisite_concepts),
                   gap_resources          |->
                       GetRelevantResources(concept_index, frame.knowledge_gaps)]
    IN  /\ frame.pc = "gap_resources"
        /\ SetFrame(w, [frame EXCEPT !.pc = "done", !.result = result])
        /\ concept_index' =
              IndexAfterResources(IndexAfterResources(concept_index,
                                                      frame.prerequisite_concepts),
                                  frame.knowledge_gaps)

\* return result: the worker has the result and is free for its next call
WorkerReturn(w) ==
    /\ Frame(workers, w).pc = "done"
    /\ SetFrame(w, IdleFrame)
    /\ UNCHANGED concept_index

InitWorkers ==
    /\ curriculum \in WorkerCurricula
    /\ concept_index = BuildConceptIndex(curriculum)
    /\ extraction = "none"
    /\ last_call = "none"
    /\ analysis = NoResult
    /\ gaps = NoResult
    /\ workers = NoWorkers
    /\ input_dir = <<>>
    /\ concept_structures = EmptyDict
    /\ pending = <<>>
    /\ curriculum_file = JsonFile(curriculum)
    /\ construction = "returned"

NextWorkers ==
    \E w \in 1..MaxWorkers :
        \/ \E op \in Operations, query \in WorkerQueries : WorkerCall(w, op, query)
        \/ WorkerClassify(w)
        \/ WorkerExtract(w)
        \/ WorkerRelated(w)
        \/ WorkerResources(w)
        \/ WorkerPrerequisites(w)
        \/ WorkerGapResources(w)
        \/ WorkerReturn(w)

SpecWorkers == InitWorkers /\ [][NextWorkers]_vars

(***************************************************************************)
(* backend/scraper/concept_extraction_util.py: ConceptExtractionUtil.      *)
(* extract_all_topics reads the scraped files of input_dir, one topic      *)
(* after the other, and writes the curriculum document the mapper loads.   *)
(* A directory is the sequence of its files in the order os.listdir        *)
(* returns them; a file is [name, content].                                *)
(***************************************************************************)
\* str.title() on a character that starts a word
TitleChar(c) ==
    IF c \notin CasedChars THEN c
    ELSE IF c \in NoTitleChars THEN Unwritten
    ELSE IF \E k \in 1..Len(TitleSpecial) : TitleSpecial[k][1] = c
    THEN TitleSpecial[CHOOSE k \in 1..Len(TitleSpecial) : TitleSpecial[k][1] = c][2]
    ELSE IF \E i \in 1..Len(TitleSources) : CharAt(TitleSources, i) = c
    THEN CharAt(TitleTargets, CHOOSE i \in 1..Len(TitleSources) : CharAt(TitleSources, i) = c)
    ELSE c

\* str.title(): a character is title-cased unless it follows a cased one, and
\* then it is lower-cased
RECURSIVE TitleFrom(_, _, _)
TitleFrom(s, i, after_cased) ==
    IF i > Len(s) THEN ""
    ELSE (IF after_cased THEN LowerAt(s, i) ELSE TitleChar(CharAt(s, i)))
         \o TitleFrom(s, i + 1, IsCased(CharAt(s, i)))

Title(s) == TitleFrom(s, 1, FALSE)

\* str.endswith(suffix)
EndsWith(s, suffix) ==
    Len(s) >= Len(suffix) /\ SubSeq(s, Len(s) - Len(suffix) + 1, Len(s)) = suffix

\* str.replace(old, new) for a non-empty old: every occurrence, left to right
RECURSIVE Replace(_, _, _)
Replace(s, old, new) ==
    IF Len(s) < Len(old) THEN s
    ELSE IF SubSeq(s, 1, Len(old)) = old
         THEN new \o Replace(SubSeq(s, Len(old) + 1, Len(s)), old, new)
         ELSE CharAt(s, 1) \o Replace(Tail(s), old, new)

CombinedSuffix == "_combined.json"

topic_subtopics ==
    [arrays |->
        <<"array creation", "array initialization", "array traversal",
          "array insertion", "array deletion", "array searching",
          "array sorting", "multidimensional arrays", "array complexity",
          "array applications", "array manipulation", "array slicing",
          "array rotation", "subarray", "array size">>,
     linked_lists |->
        <<"singly linked list", "doubly linked list", "circular linked list",
          "linked list traversal", "linked list insertion", "linked list deletion",
          "linked list searching", "linked list reversal", "linked list complexity",
          "linked list applications", "node structure", "pointer manipulation">>,
     stacks |->
        <<"stack operations", "push operation", "pop operation", "peek operation",
          "stack implementation", "stack applications", "stack using array",
          "stack using linked list", "stack complexity", "balanced parentheses",
          "expression evaluation", "infix to postfix", "stack overflow", "stack underflow">>,
     queues |->
        <<"queue operations", "enqueue operation", "dequeue operation",
          "queue implementation", "queue using array", "queue using linked list",
          "circular queue", "priority queue", "double ended queue", "deque",
          "queue applications", "queue complexity", "queue overflow", "queue underflow">>,
     trees |->
        <<"binary tree", "binary search tree", "tree traversal", "inorder traversal",
          "preorder traversal", "postorder traversal", "level order traversal",
          "tree height", "tree depth", "balanced tree", "avl tree", "red black tree",
          "b-tree", "tree insertion", "tree deletion", "tree searching", "tree complexity">>,
     graphs |->
        <<"graph representation", "adjacency matrix", "adjacency list",
          "graph traversal", "breadth first search", "depth first search",
          "graph applications", "shortest path", "minimum spanning tree",
          "topological sort", "graph coloring", "graph complexity",
          "directed graph", "undirected graph", "weighted graph", "unweighted graph">>,
     hash_tables |->
        <<"hash function", "collision resolution", "chaining", "open addressing",
          "linear probing", "quadratic probing", "double hashing", "rehashing",
          "load factor", "hash table complexity", "hash table applications",
          "hash map implementation", "hash set implementation">>,
     sorting_algorithms |->
        <<"bubble sort", "selection sort", "insertion sort", "merge sort",
          "quick sort", "heap sort", "counting sort", "radix sort", "bucket sort",
          "sorting complexity", "stable sorting", "in-place sorting", "external sorting",
          "sorting comparison", "adaptive sorting", "hybrid sorting algorithms">>,
     searching_algorithms |->
        <<"linear search", "binary search", "interpolation search", "jump search",
          "exponential search", "fibonacci search", "searching complexity",
          "searching comparison", "searching applications">>,
     dynamic_programming |->
        <<"memoization", "tabulation", "top-down approach", "bottom-up approach",
          "optimal substructure", "overlapping subproblems", "fibonacci sequence",
          "knapsack problem", "longest common subsequence", "edit distance",
          "dynamic programming applications", "dynamic programming complexity">>,
     recursion |->
        <<"base case", "recursive case", "recursive function", "recursion tree",
          "tail recursion", "head recursion", "nested recursion", "indirect recursion",
          "recursion complexity", "recursion vs iteration", "stack overflow",
          "recursive backtracking", "memoization in recursion">>]

essential_subtopics ==
    [arrays |-> <<"array creation", "array insertion", "array deletion", "array traversal">>,
     linked_lists |-> <<"singly linked list", "doubly linked list",
                        "linked list insertion", "linked list deletion">>,
     stacks |-> <<"push operation", "pop operation", "peek operation">>,
     queues |-> <<"enqueue operation", "dequeue operation">>,
     trees |-> <<"binary tree", "tree traversal">>,
     graphs |-> <<"graph representation", "graph traversal">>,
     hash_tables |-> <<"hash function", "collision resolution">>,
     sorting_algorithms |-> <<"bubble sort", "quick sort", "merge sort">>,
     searching_algorithms |-> <<"linear search", "binary search">>,
     dynamic_programming |-> <<"memoization", "tabulation">>,
     recursion |-> <<"base case", "recursive case">>]

learning_paths ==
    <<[path_name |-> "Beginner DSA Path",
       topics |-> <<"arrays", "linked_lists", "stacks", "queues", "recursion",
                    "searching_algorithms", "sorting_algorithms">>],
      [path_name |-> "Intermediate DSA Path",
       topics |-> <<"trees", "hash_tables", "dynamic_programming">>],
      [path_name |-> "Advanced DSA Path",
       topics |-> <<"graphs", "advanced_algorithms">>]>>

\* what extract_topic_concepts returns when it gives up
None == [none |-> TRUE]

IsNone(value) == "none" \in DOMAIN value

\* os.path.exists(input_file)
FileExists(dir, file_name) == \E i \in 1..Len(dir) : dir[i].name = file_name

\* what is found at the path: a directory, bytes that are not UTF-8 text, text
\* that is not JSON, or a JSON document
FileContent(dir, file_name) ==
    dir[CHOOSE i \in 1..Len(dir) : dir[i].name = file_name].content

\* for relevant_subtopic in relevant_subtopics: append it when the text mentions it
RECURSIVE AddRelevant(_, _, _)
AddRelevant(subtopics, relevant_subtopics, text) ==
    IF relevant_subtopics = <<>> THEN subtopics
    ELSE LET relevant_subtopic == Head(relevant_subtopics)
         IN  AddRelevant(IF /\ Contains(Lower(text), Lower(relevant_subtopic))
                            /\ ~InList(relevant_subtopic, subtopics)
                         THEN Append(subtopics, relevant_subtopic)
                         ELSE subtopics,
                         Tail(relevant_subtopics), text)

\* for subtopic_text in subtopics: ...
RECURSIVE AddFromTexts(_, _, _)
AddFromTexts(subtopics, relevant_subtopics, texts) ==
    IF texts = <<>> THEN subtopics
    ELSE AddFromTexts(AddRelevant(subtopics, relevant_subtopics, Head(texts)),
                      relevant_subtopics, Tail(texts))

ScrapedResource(entry, source) ==
    [title |-> Get(entry, "title", ""), url |-> Get(entry, "url", ""), source |-> source]

\* the loops over data["geeksforgeeks"] and data["w3schools"]
RECURSIVE ProcessSite(_, _, _, _)
ProcessSite(structure, entries, source, relevant_subtopics) ==
    IF entries = <<>> THEN structure
    ELSE ProcessSite(
            [structure EXCEPT
                !.resources = Append(@, ScrapedResource(Head(entries), source)),
                !.subtopics = AddFromTexts(@, relevant_subtopics,
                                           Get(Head(entries), "subtopics", <<>>))],
            Tail(entries), source, relevant_subtopics)

\* the loop over data["stackoverflow"]: the question's title is the text
RECURSIVE ProcessQuestions(_, _, _)
ProcessQuestions(structure, entries, relevant_subtopics) ==
    IF entries = <<>> THEN structure
    ELSE ProcessQuestions(
            [structure EXCEPT
                !.resources = Append(@, ScrapedResource(Head(entries), "stackoverflow")),
                !.subtopics = AddRelevant(@, relevant_subtopics,
                                          Get(Head(entries), "title", ""))],
            Tail(entries), relevant_subtopics)

\* for essential_subtopic in essential_subtopics.get(topic, []): append if absent
RECURSIVE AddEssential(_, _)
AddEssential(subtopics, essential) ==
    IF essential = <<>> THEN subtopics
    ELSE AddEssential(IF InList(Head(essential), subtopics) THEN subtopics
                      ELSE Append(subtopics, Head(essential)),
                      Tail(essential))

\* extract_topic_concepts(topic)
ExtractTopicConcepts(dir, topic) ==
    LET input_file == topic \o CombinedSuffix
    IN  IF ~FileExists(dir, input_file) THEN None
        ELSE LET file == FileContent(dir, input_file)
                 data == file.document
                 relevant_subtopics == Get(topic_subtopics, topic, <<>>)
                 empty == [topic |-> topic, subtopics |-> <<>>, resources |-> <<>>]
                 gfg == ProcessSite(empty, Get(data, "geeksforgeeks", <<>>),
                                    "geeksforgeeks", relevant_subtopics)
                 w3 == ProcessSite(gfg, Get(data, "w3schools", <<>>),
                                   "w3schools", relevant_subtopics)
                 so == ProcessQuestions(w3, Get(data, "stackoverflow", <<>>),
                                        relevant_subtopics)
             IN  CASE file.kind \in {"directory", "text"} -> None
                   [] file.kind = "bytes" -> UnicodeDecodeError
                   [] file.kind = "json" ->
                        [so EXCEPT !.subtopics =
                            AddEssential(@, Get(essential_subtopics, topic, <<>>))]

\* the topics extract_all_topics finds in the directory
RECURSIVE ScrapedTopics(_)
ScrapedTopics(dir) ==
    IF dir = <<>> THEN <<>>
    ELSE (IF EndsWith(Head(dir).name, CombinedSuffix)
          THEN <<Replace(Head(dir).name, CombinedSuffix, "")>> ELSE <<>>)
         \o ScrapedTopics(Tail(dir))

\* the entry _create_dsa_curriculum makes of a topic's structure
CurriculumEntry(topic, structure) ==
    [name         |-> topic,
     display_name |-> Title(ReplaceUnderscores(topic)),
     subtopics    |-> Get(structure, "subtopics", <<>>),
     resources    |-> Get(structure, "resources", <<>>)]

\* _create_dsa_curriculum(concept_structures)
CreateDsaCurriculumResult(structures) ==
    [title          |-> "Data Structures and Algorithms Curriculum",
     topics         |-> [i \in 1..Len(structures.order) |->
                            CurriculumEntry(structures.order[i], structures.at[i])],
     learning_paths |-> learning_paths]

(***************************************************************************)
(* Inputs: directories of scraped files.                                   *)
(***************************************************************************)
FileNames ==
    <<"stacks_combined.json", "recursion_combined.json", "queues_combined.json",
      "heaps_combined.json", "stacks_concepts.json">>

Contents ==
    <<JsonFile(
      [stackoverflow |-> <<[title |-> "Stack overflow in recursive function", url |-> "so1"],
                           [title |-> "How does the Base Case end it?", url |-> "so2"]>>]),
      JsonFile(
      [geeksforgeeks |-> <<[title |-> "Introduction", url |-> "g1",
                            subtopics |-> <<"Push Operation and Pop Operation",
                                            "Priority Queue overflowed">>],
                           [url |-> "g2"]>>,
       w3schools     |-> <<[title |-> "Queues",
                            subtopics |-> <<"Circular queue", "pop operation">>]>>]),
      Malformed,
      JsonFile([field \in {} |-> ""]),
      Undecodable,
      Directory>>

DirectoryChoices(n) ==
    UNION {[1..k -> (1..Len(FileNames)) \X (1..Len(Contents))] : k \in 0..n}

Directories ==
    {[i \in 1..Len(c) |-> [name |-> FileNames[c[i][1]], content |-> Contents[c[i][2]]]] :
        c \in {d \in DirectoryChoices(MaxFiles) :
                  \A i, j \in 1..Len(d) : d[i][1] = d[j][1] => i = j}}

(***************************************************************************)
(* extract_all_topics as a state machine: one step for each topic of the   *)
(* loop, one for _create_dsa_curriculum.                                   *)
(***************************************************************************)
InitExtraction ==
    /\ input_dir \in Directories
    /\ pending = ScrapedTopics(input_dir)
    /\ concept_structures = EmptyDict
    /\ curriculum = NoResult
    /\ curriculum_file = Missing
    /\ construction = "none"
    /\ extraction = "running"
    /\ concept_index = EmptyDict
    /\ last_call = "none"
    /\ analysis = NoResult
    /\ gaps = NoResult
    /\ workers = NoWorkers

\* concept_structure = self.extract_topic_concepts(topic); if concept_structure: ...
\* An exception of the call leaves the loop and extract_all_topics.
ExtractNextTopic ==
    /\ extraction = "running"
    /\ pending # <<>>
    /\ LET topic == Head(pending)
           concept_structure == ExtractTopicConcepts(input_dir, topic)
       IN  IF Raised(concept_structure)
           THEN /\ extraction' = concept_structure.raised
                /\ UNCHANGED <<concept_structures, pending>>
           ELSE /\ concept_structures' =
                      IF IsNone(concept_structure) THEN concept_structures
                      ELSE DictSet(concept_structures, topic, concept_structure)
                /\ pending' = Tail(pending)
                /\ UNCHANGED extraction
    /\ UNCHANGED <<input_dir, curriculum, concept_index, last_call, analysis, gaps, workers,
                   curriculum_file, construction>>

\* self._create_dsa_curriculum(concept_structures), after the loop
CreateDsaCurriculum ==
    /\ extraction = "running"
    /\ pending = <<>>
    /\ curriculum' = CreateDsaCurriculumResult(concept_structures)
    /\ curriculum_file' = JsonFile(curriculum')
    /\ extraction' = "returned"
    /\ UNCHANGED <<input_dir, concept_structures, pending, concept_index, last_call,
                   analysis, gaps, workers, construction>>

NextExtraction ==
    \/ ExtractNextTopic
    \/ CreateDsaCurriculum

SpecExtraction == InitExtraction /\ [][NextExtraction]_vars

Analyzed == last_call \in {"analyze_query", "identify_knowledge_gaps"}
GapsIdentified == last_call = "identify_knowledge_gaps"

TypeOK == last_call \in {"none", "analyze_query", "identify_knowledge_gaps"}

(***************************************************************************)
(* Vocabulary of the properties.                                           *)
(***************************************************************************)
NoDuplicates(list) == \A i, j \in 1..Len(list) : list[i] = list[j] => i = j

Topics == Get(curriculum, "topics", <<>>)

\* the positions <<category, pattern>> of query_patterns
PatternPositions ==
    UNION {{<<ci, pi>> : pi \in 1..Len(query_patterns[ci].patterns)} :
           ci \in 1..Len(query_patterns)}

PatternAt(p) == query_patterns[p[1]].patterns[p[2]]

\* the pattern matches the query somewhere
Matches(p, query) == ReSearch(PatternAt(p), query).ok

\* p is declared before r
DeclaredBefore(p, r) == p[1] < r[1] \/ (p[1] = r[1] /\ p[2] < r[2])

\* p is the first declared of the patterns that match the query
FirstMatching(p, query) ==
    /\ Matches(p, query)
    /\ \A r \in PatternPositions : DeclaredBefore(r, p) => ~Matches(r, query)

\* no pattern matches the query
Unmatched(query) == \A p \in PatternPositions : ~Matches(p, query)

\* the resources gathered for the extracted concepts before deduplication
Gathered == GatherResources(concept_index, analysis.extracted_concepts)

\* C1: related_concepts has at most 5 entries and none of them is an
\* element of extracted_concepts.
C1_RelatedCappedAndExclusive ==
    Analyzed =>
        /\ Len(analysis.related_concepts) <= 5
        /\ \A i \in 1..Len(analysis.related_concepts) :
              ~InList(analysis.related_concepts[i], analysis.extracted_concepts)

\* C1 witness: more than 5 candidates were accumulated, one of them is an
\* extracted concept, and 5 are returned.
C1_Witness ==
    /\ Analyzed
    /\ Len(RelatedAccumulate(concept_index, analysis.extracted_concepts)) > 5
    /\ \E i \in 1..Len(analysis.extracted_concepts) :
          InList(analysis.extracted_concepts[i],
                 RelatedAccumulate(concept_index, analysis.extracted_concepts))
    /\ Len(analysis.related_concepts) = 5

ResourceListOK(rs) ==
    /\ Len(rs) <= 10
    /\ \A i, j \in 1..Len(rs) : (i # j /\ rs[i].url # "") => rs[i].url # rs[j].url

\* C2: every returned resource list (resources, prerequisite_resources,
\* gap_resources) has at most 10 entries and no two entries with the same
\* non-empty url.
C2_ResourcesCappedAndUnique ==
    /\ Analyzed => ResourceListOK(analysis.resources)
    /\ GapsIdentified =>
          /\ ResourceListOK(gaps.prerequisite_resources)
          /\ ResourceListOK(gaps.gap_resources)

\* C2 witness: more than 10 resources with different urls and a repeated url
\* were gathered, 10 are returned, and prerequisite resources were resolved.
C2_Witness ==
    /\ GapsIdentified
    /\ Cardinality({Gathered[i].url : i \in 1..Len(Gathered)} \ {""}) > 10
    /\ \E i, j \in 1..Len(Gathered) : i # j /\ Gathered[i].url = Gathered[j].url
    /\ Len(analysis.resources) = 10
    /\ Len(gaps.prerequisite_resources) > 0

\* C3: extracted_concepts, prerequisite_concepts and knowledge_gaps of a
\* knowledge-gap result are pairwise disjoint.
C3_PairwiseDisjoint ==
    GapsIdentified =>
        LET extracted     == ToSet(analysis.extracted_concepts)
            prerequisites == ToSet(gaps.prerequisite_concepts)
            knowledge     == ToSet(gaps.knowledge_gaps)
        IN  /\ extracted \cap prerequisites = {}
            /\ extracted \cap knowledge = {}
            /\ prerequisites \cap knowledge = {}

\* C3 witness: a gap candidate is also a prerequisite, another one is kept.
C3_Witness ==
    /\ GapsIdentified
    /\ ToSet(GapCandidates(concept_index, analysis.extracted_concepts))
          \cap ToSet(gaps.prerequisite_concepts) # {}
    /\ gaps.knowledge_gaps # <<>>
    /\ gaps.prerequisite_concepts # <<>>

\* C4: a query "what is P", P an indexed concept written directly after
\* "what is", is analysed to query_type "definition" with
\* extracted_concepts = [P].
C4_WhatIsWithoutArticle ==
    Analyzed =>
        \A i \in 1..Len(concept_index.order) :
            CleanQuery(analysis.original_query) = "what is " \o concept_index.order[i]
            => /\ analysis.query_type = "definition"
               /\ analysis.extracted_concepts = <<concept_index.order[i]>>

\* C5 as stated: with an empty curriculum every query is analysed to
\* "general" with empty extracted_concepts, related_concepts and resources.
C5_EmptyCurriculumOnlyGeneral ==
    (Analyzed /\ Topics = <<>>) =>
        /\ analysis.query_type = "general"
        /\ analysis.extracted_concepts = <<>>
        /\ analysis.related_concepts = <<>>
        /\ analysis.resources = <<>>

\* C5 amended: with an empty curriculum every query has empty
\* related_concepts and resources; a query that no intent pattern matches is
\* "general" with empty extracted_concepts, and a query that an intent
\* pattern matches keeps a category other than "general" and the captured
\* phrases.
C5_EmptyCurriculumAmended ==
    (Analyzed /\ Topics = <<>>) =>
        /\ analysis.related_concepts = <<>>
        /\ analysis.resources = <<>>
        /\ IF Unmatched(CleanQuery(analysis.original_query))
           THEN analysis.query_type = "general" /\ analysis.extracted_concepts = <<>>
           ELSE analysis.query_type # "general" /\ analysis.extracted_concepts # <<>>

\* C5 witness: a non-empty query that no pattern matches, analysed against
\* the empty curriculum.
C5_Witness ==
    /\ Analyzed
    /\ Topics = <<>>
    /\ CleanQuery(analysis.original_query) # ""
    /\ analysis.query_type = "general"

\* C6: every gathered resource with an empty or missing url is kept by the
\* deduplication, and is returned when the cap of 10 does not cut it off.
C6_EmptyUrlKept ==
    Analyzed =>
        \A i \in 1..Len(Gathered) :
            Gathered[i].url = "" =>
                /\ InList(Gathered[i], UniqueResources(Gathered, {}))
                /\ Len(Gathered) <= 10 => InList(Gathered[i], analysis.resources)

\* C7: extracted_concepts contains no duplicate entries.
C7_ExtractedNoDuplicates ==
    Analyzed => NoDuplicates(analysis.extracted_concepts)

\* C8: the category and the concepts returned are those of the matching
\* pattern that is declared first (category order, then pattern order),
\* wherever in the query the patterns match; without a matching pattern the
\* category is "general".
C8_DeclarationOrderPriority ==
    Analyzed =>
        LET query == CleanQuery(analysis.original_query)
        IN  \/ /\ analysis.query_type = "general"
               /\ Unmatched(query)
            \/ \E p \in PatternPositions :
                  /\ query_patterns[p[1]].type = analysis.query_type
                  /\ FirstMatching(p, query)
                  /\ analysis.extracted_concepts =
                        ConceptsOfMatch(analysis.query_type, ReSearch(PatternAt(p), query))

\* C8 witness: patterns of two categories match, and the one declared later
\* matches further left in the query.
C8_Witness ==
    /\ Analyzed
    /\ LET query == CleanQuery(analysis.original_query)
       IN  \E p, r \in PatternPositions :
              /\ query_patterns[p[1]].type = analysis.query_type
              /\ r[1] > p[1]
              /\ Matches(r, query)
              /\ FirstMatching(p, query)
              /\ ReSearch(PatternAt(r), query).start < ReSearch(PatternAt(p), query).start

\* C9: when the only extracted concept is the subtopic at position k of a
\* topic's subtopics, prerequisite_concepts is exactly the set of the
\* subtopics at positions smaller than k, and holds none at a larger position.
C9_PrerequisitesArePredecessors ==
    GapsIdentified =>
        \A p \in 1..Len(Topics) :
            LET subtopics == Get(Topics[p], "subtopics", <<>>)
            IN  \A k \in 1..Len(subtopics) :
                    analysis.extracted_concepts = <<Lower(subtopics[k])>> =>
                        /\ ToSet(gaps.prerequisite_concepts) =
                              {subtopics[i] : i \in 1..(k - 1)}
                        /\ \A i \in (k + 1)..Len(subtopics) :
                              ~InList(subtopics[i], gaps.prerequisite_concepts)

\* C9 witness: the extracted concept is a subtopic with subtopics before and
\* after it.
C9_Witness ==
    /\ GapsIdentified
    /\ \E p \in 1..Len(Topics) :
          LET subtopics == Get(Topics[p], "subtopics", <<>>)
          IN  \E k \in 2..(Len(subtopics) - 1) :
                  /\ analysis.extracted_concepts = <<Lower(subtopics[k])>>
                  /\ Len(gaps.prerequisite_concepts) = k - 1

\* the three name forms of a topic entry
CanonicalName(t) == Get(t, "name", "")
SpaceName(t) == ReplaceUnderscores(CanonicalName(t))
DisplayKey(t) == Lower(Get(t, "display_name", ""))
NameForms(t) == {CanonicalName(t), SpaceName(t), DisplayKey(t)}
ThreeDistinctForms(t) == Cardinality(NameForms(t)) = 3

\* the keys of the two kinds of result
AnalysisFields ==
    {"original_query", "query_type", "extracted_concepts", "related_concepts", "resources"}
GapFields ==
    {"query_analysis", "prerequisite_concepts", "knowledge_gaps",
     "prerequisite_resources", "gap_resources"}
QueryTypes ==
    {"definition", "comparison", "implementation", "complexity", "application", "general"}

\* the call returned a result of the documented structure
StructuredAnalysis(a) ==
    /\ ~Raised(a)
    /\ DOMAIN a = AnalysisFields
    /\ a.query_type \in QueryTypes
StructuredGaps(g) ==
    /\ ~Raised(g)
    /\ DOMAIN g = GapFields
    /\ StructuredAnalysis(g.query_analysis)

Unindexed(concepts) == \A i \in 1..Len(concepts) : ~HasKey(concept_index, concepts[i])

\* the concept is a subtopic entry whose display name is not in the
\* subtopics of the entry under its parent_topic key
NotInParentSequence(concept) ==
    /\ IsSubtopicConcept(concept_index, concept)
    /\ LET concept_info == DictGet(concept_index, concept)
           parent_topic == Get(concept_info, "parent_topic", "")
       IN  /\ HasKey(concept_index, parent_topic)
           /\ ~InList(Get(concept_info, "display_name", ""),
                      Get(DictGet(concept_index, parent_topic), "subtopics", <<>>))

\* C11: every call returns a structured result and raises nothing; when no
\* extracted concept is indexed (no match at all included) the related
\* concepts, resources, prerequisites and gaps are empty; a subtopic that is
\* not found in its parent's sequence adds no prerequisite.
C11_TotalAvailability ==
    /\ Analyzed =>
          /\ StructuredAnalysis(analysis)
          /\ Unindexed(analysis.extracted_concepts) =>
                analysis.related_concepts = <<>> /\ analysis.resources = <<>>
    /\ GapsIdentified =>
          /\ StructuredGaps(gaps)
          /\ Unindexed(analysis.extracted_concepts) =>
                /\ gaps.prerequisite_concepts = <<>> /\ gaps.knowledge_gaps = <<>>
                /\ gaps.prerequisite_resources = <<>> /\ gaps.gap_resources = <<>>
          /\ (\A i \in 1..Len(analysis.extracted_concepts) :
                  IsSubtopicConcept(concept_index, analysis.extracted_concepts[i])
                  => NotInParentSequence(analysis.extracted_concepts[i]))
             => gaps.prerequisite_concepts = <<>> /\ gaps.prerequisite_resources = <<>>

\* C11 witness: a knowledge-gap result for a subtopic that is not in the
\* subtopics of the entry its parent_topic resolves to, from a curriculum
\* with an entry that has no name.
C11_Witness ==
    /\ GapsIdentified
    /\ StructuredGaps(gaps)
    /\ \E p \in 1..Len(Topics) : "name" \notin DOMAIN Topics[p]
    /\ Len(analysis.extracted_concepts) = 1
    /\ NotInParentSequence(analysis.extracted_concepts[1])
    /\ gaps.prerequisite_concepts = <<>>

\* no stored resource of the index carries a concept tag
NoStoredTag ==
    \A i \in 1..Len(concept_index.at) :
        \A j \in 1..Len(concept_index.at[i].resources) :
            "concept" \notin DOMAIN concept_index.at[i].resources[j]

\* C12: every step leaves the concept index and the curriculum as they
\* were, calls of analyze_query and identify_knowledge_gaps included.
C12_CallsLeaveIndexUnchanged ==
    [][concept_index' = concept_index /\ curriculum' = curriculum]_vars

\* C12 witness: a call has returned resources carrying the concept tag, for
\* prerequisites too, and the index is still the one built from the
\* curriculum, without a tag on a stored resource.
C12_Witness ==
    /\ GapsIdentified
    /\ analysis.resources # <<>>
    /\ \A i \in 1..Len(analysis.resources) : "concept" \in DOMAIN analysis.resources[i]
    /\ gaps.prerequisite_resources # <<>>
    /\ analysis.related_concepts # <<>>
    /\ concept_index = BuildConceptIndex(curriculum)
    /\ NoStoredTag

\* what each query yields when it is processed alone by a mapper of its own
AloneAnalysis ==
    [c \in WorkerCurricula |->
        [query \in WorkerQueries |-> AnalyzeQueryResult(BuildConceptIndex(c), query)]]
AloneGaps ==
    [c \in WorkerCurricula |->
        [query \in WorkerQueries |-> KnowledgeGapResults(BuildConceptIndex(c), query)]]

\* C13: under every interleaving of the workers' steps, the result a worker
\* gets for its query is the result the query yields when processed alone
\* (prerequisite_concepts and knowledge_gaps in any order of their sets).
C13_ConcurrentResultsAsAlone ==
    \A w \in 1..MaxWorkers :
        workers[w].pc = "done" =>
            IF workers[w].op = "analyze_query"
            THEN workers[w].result = AloneAnalysis[curriculum][workers[w].query]
            ELSE workers[w].result \in AloneGaps[curriculum][workers[w].query]

\* C13 witness: a worker has its knowledge-gap result with prerequisites
\* and tagged resources while another worker is in the middle of a call for
\* a different query.
C13_Witness ==
    \E w, v \in 1..MaxWorkers :
        /\ workers[w].pc = "done"
        /\ workers[w].op = "identify_knowledge_gaps"
        /\ workers[w].result.prerequisite_concepts # <<>>
        /\ workers[w].result.query_analysis.resources # <<>>
        /\ workers[v].pc \in {"extract", "related", "resources", "prerequisites", "gap_resources"}
        /\ workers[v].query # workers[w].query

\* the keys the index builder assigns for a topic entry
NameKeys(t) == {CanonicalName(t), SpaceName(t)} \cup ({DisplayKey(t)} \ {""})
SubtopicsOf(t) == Get(t, "subtopics", <<>>)
SubtopicKeys(t) == {Lower(SubtopicsOf(t)[i]) : i \in 1..Len(SubtopicsOf(t))}
KeysOf(t) == NameKeys(t) \cup SubtopicKeys(t)

\* the keys assigned for the topics after position p
LaterTopicKeys(p) == UNION {KeysOf(Topics[j]) : j \in (p + 1)..Len(Topics)}

\* the keys assigned after the subtopic at position i of the topic at p
KeysAfterSubtopic(p, i) ==
    {Lower(SubtopicsOf(Topics[p])[j]) : j \in (i + 1)..Len(SubtopicsOf(Topics[p]))}
    \cup LaterTopicKeys(p)

\* the resources of the entry whose title, "" when missing, mentions the subtopic
MentionedIn(t, subtopic) ==
    LET Mentions(r) == Contains(Lower(Get(r, "title", "")), Lower(subtopic))
    IN  SelectSeq(Get(t, "resources", <<>>), Mentions)

\* what the index holds for the topic at p when display_name is read with
\* the given default: every key assigned for the entry is present, a name
\* key that is not assigned again holds the topic record, a subtopic key
\* that is not assigned again holds its subtopic record; a missing name,
\* subtopics, resources or title is read as "" or the empty list
IndexedWithDefaults(p, display_default) ==
    LET t == Topics[p]
    IN  /\ KeysOf(t) \subseteq ToSet(concept_index.order)
        /\ \A a \in NameKeys(t) \ (SubtopicKeys(t) \cup LaterTopicKeys(p)) :
              DictGet(concept_index, a) =
                  [type         |-> "topic",
                   display_name |-> Get(t, "display_name", display_default),
                   subtopics    |-> Get(t, "subtopics", <<>>),
                   resources    |-> Get(t, "resources", <<>>)]
        /\ \A i \in 1..Len(SubtopicsOf(t)) :
              Lower(SubtopicsOf(t)[i]) \notin KeysAfterSubtopic(p, i) =>
                  DictGet(concept_index, Lower(SubtopicsOf(t)[i])) =
                      [type         |-> "subtopic",
                       parent_topic |-> Get(t, "name", ""),
                       display_name |-> SubtopicsOf(t)[i],
                       resources    |-> MentionedIn(t, SubtopicsOf(t)[i])]

\* C14: the index is built from entries that lack fields, every missing
\* field is read as the empty string or the empty list, and what the entry
\* has is indexed.
C14_MissingFieldsEmptyDefaults ==
    \A p \in 1..Len(Topics) : IndexedWithDefaults(p, "")

\* C14 amended: as C14, but a missing display_name is stored in the topic
\* record as the topic's name ("" when that is missing too).
C14_MissingFieldsAmended ==
    \A p \in 1..Len(Topics) : IndexedWithDefaults(p, Get(Topics[p], "name", ""))

\* C14 witness: an index built from an entry without name, one without
\* display_name and resources, and a resource without title, holding the
\* subtopics of both entries.
C14_Witness ==
    /\ \E p, r \in 1..Len(Topics) :
          /\ "name" \notin DOMAIN Topics[p]
          /\ \E j \in 1..Len(Get(Topics[p], "resources", <<>>)) :
                "title" \notin DOMAIN Topics[p].resources[j]
          /\ "display_name" \notin DOMAIN Topics[r]
          /\ "resources" \notin DOMAIN Topics[r]
          /\ SubtopicKeys(Topics[p]) # {} /\ SubtopicKeys(Topics[r]) # {}
          /\ SubtopicKeys(Topics[p]) \cup SubtopicKeys(Topics[r])
                \subseteq ToSet(concept_index.order)
    /\ concept_index = BuildConceptIndex(curriculum)

\* the whitespace-separated words of a string
Tokens(str) == ToSet(Split(str))

\* the extracted concepts are those of the word-overlap pass: the
\* classifier returned no concept and no index key occurs in the query
ViaWordOverlap ==
    /\ Analyzed
    /\ analysis.query_type = "general"
    /\ \A i \in 1..Len(concept_index.order) :
          ~Contains(CleanQuery(analysis.original_query), concept_index.order[i])

\* C15: in the word-overlap pass an index key is extracted if and only if
\* one of its words longer than 3 characters is equal to a whole token of
\* the query.
C15_WordOverlapWholeTokens ==
    ViaWordOverlap =>
        \A i \in 1..Len(concept_index.order) :
            InList(concept_index.order[i], analysis.extracted_concepts)
            <=> \E word \in Tokens(concept_index.order[i]) :
                    Len(word) > 3 /\ word \in Tokens(CleanQuery(analysis.original_query))

\* C15 witness: the word-overlap pass has added a key for a token equal to
\* one of its words, and has not added a key one of whose words is only
\* contained in a token of the query.
C15_Witness ==
    /\ ViaWordOverlap
    /\ analysis.extracted_concepts # <<>>
    /\ \E i \in 1..Len(concept_index.order) :
          /\ ~InList(concept_index.order[i], analysis.extracted_concepts)
          /\ \E word \in Tokens(concept_index.order[i]) :
                /\ Len(word) > 3
                /\ \E token \in Tokens(CleanQuery(analysis.original_query)) :
                      Contains(token, word)

\* what each of the three strategies finds for the query of the result
ClassifierConcepts == IdentifyQueryType(CleanQuery(analysis.original_query)).concepts
ExactKeys ==
    LET Occurs(key) == Contains(CleanQuery(analysis.original_query), key)
    IN  SelectSeq(concept_index.order, Occurs)
OverlapKeys ==
    LET Overlaps(key) ==
            \E word \in Tokens(key) :
                Len(word) > 3 /\ word \in Tokens(CleanQuery(analysis.original_query))
    IN  SelectSeq(concept_index.order, Overlaps)

\* C16: extracted_concepts is the list of exactly one strategy: the
\* classifier's concepts when it returned any, else the keys of the
\* exact-substring pass when it found any, else the keys of the
\* word-overlap pass.
C16_OrderedFallbacks ==
    Analyzed =>
        analysis.extracted_concepts =
            IF ClassifierConcepts # <<>> THEN ClassifierConcepts
            ELSE IF ExactKeys # <<>> THEN ExactKeys
            ELSE OverlapKeys

\* C16 witness: the classifier returned a concept while the exact pass
\* would find other keys and the word-overlap pass yet others; the result
\* holds the classifier's concept only.
C16_Witness ==
    /\ Analyzed
    /\ ClassifierConcepts # <<>>
    /\ ExactKeys # <<>>
    /\ ToSet(ExactKeys) \cap ToSet(ClassifierConcepts) = {}
    /\ ToSet(OverlapKeys) \ ToSet(ExactKeys) # {}
    /\ analysis.extracted_concepts = ClassifierConcepts

\* C17: in a curriculum assembled by extract_all_topics every subtopic string
\* belongs to one topic: no string is in the subtopics lists of two different
\* topic entries.
C17_SubtopicInOneTopic ==
    \A i, j \in 1..Len(Topics) :
        i # j => ToSet(SubtopicsOf(Topics[i])) \cap ToSet(SubtopicsOf(Topics[j])) = {}

\* the subtopics of the parent topic of an indexed subtopic, as the parent's
\* record holds them
ParentSubtopics(concept) ==
    LET parent_topic == Get(DictGet(concept_index, concept), "parent_topic", "")
    IN  IF HasKey(concept_index, parent_topic)
        THEN Get(DictGet(concept_index, parent_topic), "subtopics", <<>>)
        ELSE <<>>

\* ... those of them that are not the subtopic indexed under the key concept
OtherSubtopics(concept) ==
    LET Other(subtopic) == Lower(subtopic) # concept
    IN  SelectSeq(ParentSubtopics(concept), Other)

\* C18: when an extracted concept is a subtopic, related_concepts never
\* contains the matched subtopic itself, in whatever case the curriculum
\* writes it, and (the concept being the only one extracted) lists the other
\* subtopics of the parent topic in the topic's declared order.
C18_RelatedExcludesMatchedSubtopic ==
    Analyzed =>
        \A i \in 1..Len(analysis.extracted_concepts) :
            LET concept == analysis.extracted_concepts[i]
            IN  IsSubtopicConcept(concept_index, concept) =>
                   /\ \A k \in 1..Len(analysis.related_concepts) :
                          Lower(analysis.related_concepts[k]) # concept
                   /\ Len(analysis.extracted_concepts) = 1 =>
                          analysis.related_concepts =
                              Take(OtherSubtopics(concept), RelatedLimit)

\* C19: related_concepts contains no duplicate entries, whatever concepts
\* were extracted (two subtopics of one topic, a topic and one of its
\* subtopics, two alias keys of one topic).
C19_RelatedNoDuplicates ==
    Analyzed => NoDuplicates(analysis.related_concepts)

\* the two things X and Y a comparison pattern captures: its last two groups
ComparedThings(m) ==
    <<Strip(Group(m, Len(m.groups) - 1).text), Strip(Group(m, Len(m.groups)).text)>>

\* C20: for a query classified as comparison, in each of the three
\* comparison forms, extracted_concepts has two elements and contains both
\* of the things X and Y that are compared.
C20_ComparisonNamesBoth ==
    Analyzed /\ analysis.query_type = "comparison" =>
        LET query == CleanQuery(analysis.original_query)
        IN  \A p \in PatternPositions :
               FirstMatching(p, query) =>
                  LET things == ComparedThings(ReSearch(PatternAt(p), query))
                  IN  /\ Len(analysis.extracted_concepts) = 2
                      /\ InList(things[1], analysis.extracted_concepts)
                      /\ InList(things[2], analysis.extracted_concepts)

\* the index keys that occur in the cleaned query as a substring
OccurringKeys ==
    {key \in ToSet(concept_index.order) :
        Contains(CleanQuery(analysis.original_query), key)}

\* the position in the cleaned query where a key that occurs in it occurs first
FirstOccurrence(key) ==
    LET query == CleanQuery(analysis.original_query)
    IN  CHOOSE i \in 1..Len(query) :
            /\ SubSeq(query, i, i + Len(key) - 1) = key
            /\ \A j \in 1..(i - 1) : SubSeq(query, j, j + Len(key) - 1) # key

\* C21: when the fallback extractor runs and some index key occurs in the
\* cleaned query, the result is exactly the keys that occur in it as a
\* substring, each once, in the order of the index.
C21_ExactPassInIndexOrder ==
    Analyzed /\ ClassifierConcepts = <<>> /\ OccurringKeys # {} =>
        /\ ToSet(analysis.extracted_concepts) = OccurringKeys
        /\ NoDuplicates(analysis.extracted_concepts)
        /\ \A i, j \in 1..Len(analysis.extracted_concepts) :
               i < j => ListIndex(concept_index.order, analysis.extracted_concepts[i])
                        < ListIndex(concept_index.order, analysis.extracted_concepts[j])

\* C21 witness: the exact pass returned two keys, and the one returned first
\* occurs later in the query than the other.
C21_Witness ==
    /\ Analyzed
    /\ ClassifierConcepts = <<>>
    /\ Len(analysis.extracted_concepts) >= 2
    /\ ToSet(analysis.extracted_concepts) = OccurringKeys
    /\ FirstOccurrence(analysis.extracted_concepts[1])
          > FirstOccurrence(analysis.extracted_concepts[2])

\* the positions of the resources of a list that are the first with their
\* non-empty url
FirstPositionsOf(resources) ==
    {i \in 1..Len(resources) :
        /\ resources[i].url # ""
        /\ \A j \in 1..(i - 1) : resources[j].url # resources[i].url}

FirstPositions == FirstPositionsOf(Gathered)

\* the urls of the resources the index holds for a concept
UrlsOf(concept) ==
    IF HasKey(concept_index, concept)
    THEN LET resources == Get(DictGet(concept_index, concept), "resources", <<>>)
         IN  {Get(resources[i], "url", "") : i \in 1..Len(resources)}
    ELSE {}

\* C22: deduplication precedes truncation and keeps the first occurrence:
\* the resources returned are the first 10 of the gathered resources that
\* are the first with their non-empty url, in encounter order, and each
\* carries in its concept field the earliest input concept that has a
\* resource with its url.
C22_DeduplicateThenTruncate ==
    Analyzed =>
        LET gathered == Gathered
            first    == FirstPositionsOf(gathered)
        IN
        /\ Len(analysis.resources) = IF Cardinality(first) < 10 THEN Cardinality(first) ELSE 10
        /\ \A k \in 1..Len(analysis.resources) :
              /\ \E i \in first :
                    /\ Cardinality({j \in first : j < i}) = k - 1
                    /\ analysis.resources[k] = gathered[i]
              /\ \E c \in 1..Len(analysis.extracted_concepts) :
                    /\ analysis.resources[k].concept = analysis.extracted_concepts[c]
                    /\ analysis.resources[k].url \in UrlsOf(analysis.extracted_concepts[c])
                    /\ \A d \in 1..(c - 1) :
                          analysis.resources[k].url
                              \notin UrlsOf(analysis.extracted_concepts[d])

\* C22 witness: a url is reached through two different concepts and is
\* returned with the earlier one, and more than 10 resources remain after
\* the deduplication while the first 10 gathered hold a repeated url, so
\* that cutting first would return fewer.
C22_Witness ==
    /\ Analyzed
    /\ \E i, j \in 1..Len(Gathered) :
          /\ i < j
          /\ Gathered[i].url = Gathered[j].url
          /\ Gathered[i].concept # Gathered[j].concept
          /\ InList(Gathered[i], analysis.resources)
    /\ Cardinality(FirstPositions) > 10
    /\ Len(analysis.resources) = 10
    /\ \E i, j \in 1..10 : i < j /\ Gathered[i].url = Gathered[j].url

\* the topics that have an entry in the advanced-concept table
TableTopics ==
    {"arrays", "linked_lists", "stacks", "queues", "trees", "graphs",
     "sorting_algorithms", "searching_algorithms", "dynamic_programming"}

\* the parent topics of the extracted concepts that are subtopics
ExtractedParents ==
    {Get(DictGet(concept_index, analysis.extracted_concepts[i]), "parent_topic", "") :
        i \in {k \in 1..Len(analysis.extracted_concepts) :
                  IsSubtopicConcept(concept_index, analysis.extracted_concepts[k])}}

\* C23: knowledge_gaps holds the concepts of the table entries of the parent
\* topics of the extracted subtopics, except those that are extracted or
\* prerequisite concepts, and nothing else; a parent outside the nine
\* topics of the table adds nothing.
C23_GapsFromAdvancedTable ==
    GapsIdentified =>
        /\ ToSet(gaps.knowledge_gaps) =
              (UNION {ToSet(AdvancedConcepts(parent)) : parent \in ExtractedParents \cap TableTopics}
                  \ ToSet(analysis.extracted_concepts))
                  \ ToSet(gaps.prerequisite_concepts)
        /\ \A parent \in ExtractedParents \cap TableTopics : AdvancedConcepts(parent) # <<>>

\* C23 witness: an extracted subtopic has a parent with a table entry, one
\* concept of the entry is an extracted concept and is left out, another is
\* a knowledge gap; a topic that was extracted too adds nothing.
C23_Witness ==
    /\ GapsIdentified
    /\ \E parent \in ExtractedParents \cap TableTopics :
          /\ ToSet(AdvancedConcepts(parent)) \cap ToSet(analysis.extracted_concepts) # {}
          /\ ToSet(AdvancedConcepts(parent)) \cap ToSet(gaps.knowledge_gaps) # {}
    /\ \E i \in 1..Len(analysis.extracted_concepts) :
          /\ HasKey(concept_index, analysis.extracted_concepts[i])
          /\ ~IsSubtopicConcept(concept_index, analysis.extracted_concepts[i])
          /\ analysis.extracted_concepts[i] \in TableTopics

\* the topic entry t of the curriculum is the parent of the subtopic entry
\* the index holds under key: it has the name the entry gives as
\* parent_topic and declares the subtopic as the entry displays it
ParentOf(t, key) ==
    LET entry == DictGet(concept_index, key)
    IN  /\ Get(t, "name", "") = entry.parent_topic
        /\ InList(entry.display_name, SubtopicsOf(t))
        /\ Lower(entry.display_name) = key

\* the index keys that hold subtopic entries
IndexedSubtopics ==
    {key \in ToSet(concept_index.order) : IsSubtopicConcept(concept_index, key)}

\* C24: the resources of every subtopic entry of the index are exactly the
\* resources of its parent topic whose title contains the subtopic string,
\* compared case-insensitively, in the parent's order; hence every resource
\* returned for a subtopic concept is a resource of the parent topic.
C24_SubtopicResourcesFromParent ==
    LET subtopics == IndexedSubtopics
    IN
    /\ \A key \in subtopics :
          \E p \in 1..Len(Topics) :
             /\ ParentOf(Topics[p], key)
             /\ DictGet(concept_index, key).resources =
                    MentionedIn(Topics[p], DictGet(concept_index, key).display_name)
    /\ Analyzed =>
          \A k \in 1..Len(analysis.resources) :
             analysis.resources[k].concept \in subtopics =>
                \E p \in 1..Len(Topics) :
                   /\ ParentOf(Topics[p], analysis.resources[k].concept)
                   /\ \E j \in 1..Len(Get(Topics[p], "resources", <<>>)) :
                         analysis.resources[k] =
                            TagResource(Topics[p].resources[j], analysis.resources[k].concept)

\* C24 witness: a subtopic written with upper-case letters has a resource
\* whose title writes it in lower case, that resource is returned for it,
\* its parent has a resource it does not get, and another subtopic of the
\* index has no resource at all.
C24_Witness ==
    /\ Analyzed
    /\ \E k \in 1..Len(analysis.resources) :
          LET key == analysis.resources[k].concept
          IN  /\ key \in IndexedSubtopics
              /\ DictGet(concept_index, key).display_name # key
              /\ ~Contains(analysis.resources[k].title,
                           DictGet(concept_index, key).display_name)
              /\ \E p \in 1..Len(Topics) :
                    /\ ParentOf(Topics[p], key)
                    /\ Len(Topics[p].resources) > Len(DictGet(concept_index, key).resources)
    /\ \E key \in IndexedSubtopics : DictGet(concept_index, key).resources = <<>>

\* C25: when no extracted concept is a key of the index, related_concepts,
\* resources, prerequisite_concepts, knowledge_gaps, prerequisite_resources
\* and gap_resources are empty, and a phrase the classifier captured stays
\* the extracted concept: the fallback extractor does not replace it.
C25_UnindexedCaptureNotRecovered ==
    /\ Analyzed /\ Unindexed(analysis.extracted_concepts) =>
          /\ analysis.related_concepts = <<>>
          /\ analysis.resources = <<>>
          /\ ClassifierConcepts # <<>> => analysis.extracted_concepts = ClassifierConcepts
    /\ GapsIdentified /\ Unindexed(analysis.extracted_concepts) =>
          /\ gaps.prerequisite_concepts = <<>>
          /\ gaps.knowledge_gaps = <<>>
          /\ gaps.prerequisite_resources = <<>>
          /\ gaps.gap_resources = <<>>

\* C25 witness: the classifier captured a phrase that is not indexed, the
\* query holds index keys the fallback extractor would have returned, one of
\* them a subtopic with resources and prerequisites, and the knowledge-gap
\* result is empty throughout.
C25_Witness ==
    /\ GapsIdentified
    /\ ClassifierConcepts # <<>>
    /\ analysis.extracted_concepts = ClassifierConcepts
    /\ Unindexed(analysis.extracted_concepts)
    /\ \E i \in 1..Len(ExactKeys) :
          /\ IsSubtopicConcept(concept_index, ExactKeys[i])
          /\ DictGet(concept_index, ExactKeys[i]).resources # <<>>
          /\ PrerequisiteSet(concept_index, <<ExactKeys[i]>>) # {}
    /\ analysis.related_concepts = <<>>
    /\ gaps.knowledge_gaps = <<>>

\* nothing that json.load returns a document for is at the path
Unloadable == curriculum_file.kind # "json"

\* C26: when the curriculum file cannot be opened or is not valid JSON, the
\* constructor does not raise, the curriculum is {"topics": []}, the index
\* is empty, and the queries that follow are answered.
C26_UnloadableFileGivesEmptyCurriculum ==
    Unloadable =>
        /\ construction = "returned"
        /\ curriculum = [topics |-> <<>>]
        /\ concept_index = EmptyDict
        /\ Analyzed => StructuredAnalysis(analysis)
        /\ GapsIdentified => StructuredGaps(gaps)

\* C10: for every topic with three distinct name forms, the
\* entries under the three keys have identical subtopics and resources.
C10_AliasesSameRecord ==
    \A p \in 1..Len(Topics) :
        ThreeDistinctForms(Topics[p]) =>
            \A a, b \in NameForms(Topics[p]) :
                /\ HasKey(concept_index, a) /\ HasKey(concept_index, b)
                /\ Get(DictGet(concept_index, a), "subtopics", <<>>)
                      = Get(DictGet(concept_index, b), "subtopics", <<>>)
                /\ Get(DictGet(concept_index, a), "resources", <<>>)
                      = Get(DictGet(concept_index, b), "resources", <<>>)
====
